---- MODULE Spec2Model ----
(***************************************************************************)
(* Join-code / enrollment workflow of routes/api/classApi.js (the second   *)
(* half of src/src/routes/authRoutes.js, lines 491-1353).                  *)
(*                                                                         *)
(* The database is modelled as four collections: classes, join codes,     *)
(* join requests and enrollments (classStudentCollection).  Documents keep *)
(* the fields the handlers read or write for control flow; display-only    *)
(* fields (names, subjects, ip address, user agent) are left out.          *)
(* Time is Date.now() in milliseconds.                                     *)
(***************************************************************************)
EXTENDS Integers, Sequences, FiniteSets, TLC

VARIABLES
    now,            \* Date.now(), ms
    classes,        \* classCollection: class id -> document
    joinCodes,      \* classJoinCodeCollection, in insertion order (_id = index)
    joinRequests,   \* classJoinRequestCollection, in insertion order
    nextRequestId,  \* next fresh _id of a join request
    enrollments,    \* classStudentCollection, in insertion order (_id = index)
    ops,            \* state-growing operations performed so far
    resp,           \* the response last sent; none while the request that
                    \* arrived last is still in flight
    procs,          \* the request slots: each holds a request in flight or is idle
    studentCollection,  \* student accounts, in insertion order
    teacherCollection   \* teacher accounts, in insertion order

vars == <<now, classes, joinCodes, joinRequests, nextRequestId, enrollments,
          ops, resp, procs, studentCollection, teacherCollection>>

\* The account collections; the class and enrollment handlers do not write them
accounts == <<studentCollection, teacherCollection>>

db == <<classes, joinCodes, joinRequests, nextRequestId, enrollments>>

----------------------------------------------------------------------------
(* Bounds of the model *)

MaxOps == 3          \* join codes issued + join requests created + removals
                     \* of a student + clock advances + class, sign-up and
                     \* token requests received, in one run
WarmGap == 1         \* uses left on the join code of the warm initial state

(* Program constants *)

JOIN_CODE_TTL == 10 * 60 * 1000
MaxUsage == 50

Teachers == {"t1", "t2"}
Students == {"s1", "s2"}
\* req.session.userId of the student routes: a student, or the session of an
\* account that is gone from studentCollection
SessionStudents == Students \cup {"s3"}
ExistingClassIds == {"c1", "c2"}
ClassIds == ExistingClassIds \cup {"c3"}
ClassOwner(c) == IF c = "c1" THEN "t1" ELSE "t2"

CodeValues == {"ABC123", "XYZ789"}
CodeInputs == CodeValues \cup {"abc123"}
\* req.body.joinCode: a code, or nothing
BodyCodes == CodeInputs \cup {""}
ResolveActions == {"approve", "reject", "delete"}
TickSteps == {1, JOIN_CODE_TTL}

NoResponse == [op |-> "none", status |-> 0, result |-> "none"]
Response(op, status, result) == [op |-> op, status |-> status, result |-> result]

\* The messages POST /forgot-password redirects with
MsgEmailRequired == "Please enter your email address."
MsgResetSent ==
    "If an account with that email exists, a password reset link has been sent."
MsgResetSentInbox ==
    "If an account with that email exists, a password reset link has been sent to your inbox."
MsgResetMailFailed == "Failed to send password reset email. Please try again later."

----------------------------------------------------------------------------
(* Helpers of the language and of the data store *)

\* String.prototype.toUpperCase on the code inputs of the model
ToUpperCase(s) == IF s = "abc123" THEN "ABC123" ELSE IF s = "e1" THEN "E1" ELSE s

\* Model.create / Model.insertMany on a collection without a unique index
\* (join codes, enrollments, classes, accounts): appends the document.  The
\* handlers of these collections have no duplicate-key branch.
InsertDoc(coll, doc) == Append(coll, doc)

\* Mutant: the join requests have no unique index
DuplicateKey_Never(reqs, doc) == FALSE

\* Model.create on classJoinRequestCollection throws E11000 (error.code ===
\* 11000, answered at lines 1173-1178) when its unique index already holds
\* the key of the document: one request per (classId, studentId), which is
\* why the handler deletes a rejected request "to allow new one" (line 1131)
DuplicateKey(reqs, doc) ==
    \E i \in 1..Len(reqs) :
        reqs[i].classId = doc.classId /\ reqs[i].studentId = doc.studentId

\* Model.findOne: the first matching document in insertion order, 0 for null;
\* m is the set of the indexes of the documents the filter matches
FindOneIdx(m) == IF m = {} THEN 0 ELSE CHOOSE i \in m : \A j \in m : i <= j

\* Model.countDocuments
CountDocuments(m) == Cardinality(m)

\* Mutant: a code that is used up does not count as expired
isExpired_UnlessUsedUp(codeDoc) ==
    now > codeDoc.expiresAt /\ codeDoc.usageCount < codeDoc.maxUsage

\* joinCodeSchema.methods.isExpired: the code is past its expiry timestamp
isExpired(codeDoc) == now > codeDoc.expiresAt

\* Mutant: the cap itself still counts as usable
canBeUsed_Inclusive(codeDoc) == codeDoc.usageCount <= codeDoc.maxUsage

\* joinCodeSchema.methods.canBeUsed: the usage counter is below the cap
canBeUsed(codeDoc) == codeDoc.usageCount < codeDoc.maxUsage

\* classJoinCodeCollection.generateUniqueCode: the values no active code holds
UniqueCodes(codes) ==
    {v \in CodeValues : \A i \in 1..Len(codes) : ~(codes[i].isActive /\ codes[i].joinCode = v)}

----------------------------------------------------------------------------
(* Request slots.  A handler runs in a slot, one database operation (one   *)
(* await) per step; what it read stays in the slot's locals.  With one     *)
(* slot the handlers run one at a time; with two, two requests interleave. *)

Procs == {1, 2}

\* What the collections hold, as a record
Snapshot ==
    [classes |-> classes, joinCodes |-> joinCodes, joinRequests |-> joinRequests,
     nextRequestId |-> nextRequestId, enrollments |-> enrollments]

NoSnapshot ==
    [classes |-> <<>>, joinCodes |-> <<>>, joinRequests |-> <<>>,
     nextRequestId |-> 0, enrollments |-> <<>>]

\* pre is what the collections held when the request arrived
\* and began the clock at that moment; at is the clock the handler read last
\* (Date.now(), new Date()); doc is the document it holds (<<>>: none);
\* reply is the body of an answer that carries more than its result; name,
\* subject, userType, email and enrollment are fields of req.body; seq is the
\* number of the request in order of arrival, where the handler draws a
\* random value from it
IdleProc ==
    [pc |-> "idle", op |-> "none", code |-> "", studentId |-> "", ci |-> 0,
     classId |-> "", ei |-> 0, rid |-> 0, total |-> 0, result |-> "none",
     teacherId |-> "", action |-> "", value |-> "", began |-> 0, at |-> 0,
     doc |-> <<>>, reply |-> NoResponse, token |-> 0, password |-> "",
     confirm |-> "", coll |-> "none", ui |-> 0, name |-> "", subject |-> "",
     userType |-> "", email |-> "", enrollment |-> "", seq |-> 0,
     pre |-> NoSnapshot]

\* The server runs one handler at a time (one slot) or interleaves two
SlotSetups == {[p \in {1} |-> IdleProc], [p \in Procs |-> IdleProc]}

\* No request is in flight
Quiet == \A p \in DOMAIN procs : procs[p].pc = "idle"

\* The handler has its answer
Finish(p, result) ==
    procs' = [procs EXCEPT ![p].pc = "done", ![p].result = result]

Goto(p, pc) == procs' = [procs EXCEPT ![p].pc = pc]

----------------------------------------------------------------------------
(* Initial states: the two classes exist.  Either nothing else does, or    *)
(* class c1 has a join code that student s1 has used MaxUsage - WarmGap    *)
(* times by re-submitting after each rejection, which leaves one rejected  *)
(* request and no enrollment.                                              *)

\* The accounts of the students and teachers of the model; no token is set
\* (0 stands for undefined, "none" for an absent string)
Account(id, email, enrollment) ==
    [id |-> id, email |-> email, enrollment |-> enrollment, password |-> "initial",
     resetPasswordToken |-> 0, resetPasswordTokenExpires |-> 0,
     isVerified |-> FALSE, pendingEmail |-> "none",
     verificationToken |-> 0, verificationTokenExpires |-> 0]

KnownStudents == <<Account("s1", "s1@x.io", "E1"), Account("s2", "s2@x.io", "E2")>>
KnownTeachers == <<Account("t1", "t1@x.io", ""), Account("t2", "t2@x.io", "")>>

KnownAccounts ==
    /\ studentCollection = KnownStudents
    /\ teacherCollection = KnownTeachers

ColdClasses ==
    [c \in ExistingClassIds |->
        [teacherId |-> ClassOwner(c), isActive |-> TRUE, studentCount |-> 0]]

WarmCode ==
    [classId |-> "c1", teacherId |-> "t1", joinCode |-> "ABC123",
     expiresAt |-> JOIN_CODE_TTL, isActive |-> TRUE,
     usageCount |-> MaxUsage - WarmGap, maxUsage |-> MaxUsage]

\* A join request of class c1 as the handlers leave it: created pending
\* (line 1137), approved by the teacher (approve sets processedBy), or
\* rejected by the teacher with the default reason (line 1335)
StoredRequest(id, studentId, status) ==
    [id |-> id, classId |-> "c1", studentId |-> studentId, status |-> status,
     processedBy |-> IF status = "pending" THEN "none" ELSE "t1",
     rejectionReason |-> IF status = "rejected"
                         THEN "Request rejected by teacher" ELSE "none"]

WarmRequest == StoredRequest(1, "s1", "rejected")

InitCommon ==
    /\ now = 0
    /\ classes = ColdClasses
    /\ enrollments = <<>>
    /\ ops = 0
    /\ resp = NoResponse
    /\ procs = <<IdleProc>>

InitDb ==
    \/ /\ joinCodes = <<>>
       /\ joinRequests = <<>>
       /\ nextRequestId = 1
    \/ /\ joinCodes = <<WarmCode>>
       /\ joinRequests = <<WarmRequest>>
       /\ nextRequestId = 2

Init == InitCommon /\ InitDb /\ KnownAccounts

----------------------------------------------------------------------------
(* The operations that grow the state draw on one budget *)

MayGrow == ops < MaxOps
Grow == ops' = ops + 1

(* The clock *)

\* Time passes, between requests and between the awaits of a request
Tick ==
    /\ MayGrow
    /\ Grow
    /\ \E d \in TickSteps : now' = now + d
    /\ UNCHANGED <<db, resp, procs, accounts>>

----------------------------------------------------------------------------
(* POST /:classId/generate-join-code *)

\* Mutant: the query leaves out the teacher
OwnsClass_AnyTeacher(classId, teacherId) ==
    /\ classId \in DOMAIN classes
    /\ classes[classId].isActive

\* classCollection.findOne({_id, teacherId, isActive: true})
OwnsClass(classId, teacherId) ==
    /\ classId \in DOMAIN classes
    /\ classes[classId].teacherId = teacherId
    /\ classes[classId].isActive

\* Mutant: the update matches nothing
DeactivateCodes_NoOp(codes, classId) == codes

\* classJoinCodeCollection.updateMany({classId, isActive: true}, {isActive: false})
DeactivateCodes(codes, classId) ==
    [i \in 1..Len(codes) |->
        IF codes[i].classId = classId /\ codes[i].isActive
        THEN [codes[i] EXCEPT !.isActive = FALSE]
        ELSE codes[i]]

\* Mutant: the code lives one minute
NewJoinCode_ShortLived(classId, teacherId, value, at) ==
    [classId |-> classId, teacherId |-> teacherId, joinCode |-> value,
     expiresAt |-> at + 60 * 1000, isActive |-> TRUE,
     usageCount |-> 0, maxUsage |-> MaxUsage]

\* The document classJoinCodeCollection.create stores; at is the Date.now()
\* of line 828
NewJoinCode(classId, teacherId, value, at) ==
    [classId |-> classId, teacherId |-> teacherId, joinCode |-> value,
     expiresAt |-> at + JOIN_CODE_TTL, isActive |-> TRUE,
     usageCount |-> 0, maxUsage |-> MaxUsage]

----------------------------------------------------------------------------
(* GET /validate-join-code/:code *)

\* Mutant: the query leaves out isActive
FindActiveCode_AnyCode(codes, value) ==
    FindOneIdx({i \in 1..Len(codes) : codes[i].joinCode = value})

\* classJoinCodeCollection.findOne({joinCode, isActive: true})
FindActiveCode(codes, value) ==
    FindOneIdx({i \in 1..Len(codes) : codes[i].joinCode = value /\ codes[i].isActive})

\* Mutant: the query leaves out isActive
ActiveEnrollmentIdx_AnyState(classId, studentId) ==
    FindOneIdx({i \in 1..Len(enrollments) :
                  /\ enrollments[i].classId = classId
                  /\ enrollments[i].studentId = studentId})

\* classStudentCollection.findOne({classId, studentId, isActive: true})
ActiveEnrollmentIdx(classId, studentId) ==
    FindOneIdx({i \in 1..Len(enrollments) :
                  /\ enrollments[i].classId = classId
                  /\ enrollments[i].studentId = studentId
                  /\ enrollments[i].isActive})

\* classJoinRequestCollection.findOne({classId, studentId, status: 'pending'})
PendingRequestIdx(classId, studentId) ==
    FindOneIdx({i \in 1..Len(joinRequests) :
                  /\ joinRequests[i].classId = classId
                  /\ joinRequests[i].studentId = studentId
                  /\ joinRequests[i].status = "pending"})

\* Mutant: the update also counts a use
ExpireCode_CountUse(codes, i) ==
    [codes EXCEPT ![i].isActive = FALSE, ![i].usageCount = @ + 1]

\* classJoinCodeCollection.findByIdAndUpdate(codeDoc._id, {isActive: false})
ExpireCode(codes, i) == [codes EXCEPT ![i].isActive = FALSE]

----------------------------------------------------------------------------
(* POST /join-request *)

\* Mutant: the usage cap is not checked
CodeUnusable_NoCap(codes, ci) == ci = 0 \/ isExpired(codes[ci])

\* if (!codeDoc || codeDoc.isExpired() || !codeDoc.canBeUsed())
CodeUnusable(codes, ci) ==
    ci = 0 \/ isExpired(codes[ci]) \/ ~canBeUsed(codes[ci])

\* Mutant: the query only matches inactive rows
EnrollmentIdx_InactiveOnly(rows, classId, studentId) ==
    FindOneIdx({i \in 1..Len(rows) :
                  /\ rows[i].classId = classId
                  /\ rows[i].studentId = studentId
                  /\ ~rows[i].isActive})

\* Mutant: the query leaves out the student
EnrollmentIdx_AnyStudent(rows, classId, studentId) ==
    FindOneIdx({i \in 1..Len(rows) : rows[i].classId = classId})

\* classStudentCollection.findOne({classId, studentId})
EnrollmentIdx(rows, classId, studentId) ==
    FindOneIdx({i \in 1..Len(rows) :
                  rows[i].classId = classId /\ rows[i].studentId = studentId})

\* Mutant: the lookup never finds a request
RequestIdx_Blind(reqs, classId, studentId) == 0

\* classJoinRequestCollection.findOne({classId, studentId})
RequestIdx(reqs, classId, studentId) ==
    FindOneIdx({i \in 1..Len(reqs) :
                  reqs[i].classId = classId /\ reqs[i].studentId = studentId})

\* Mutant: a new active row is created instead of updating the old one
ReactivateEnrollment_Insert(rows, ei) ==
    Append(rows, [rows[ei] EXCEPT !.isActive = TRUE])

\* classStudentCollection.findByIdAndUpdate(_id, {isActive: true, ...})
ReactivateEnrollment(rows, ei) == [rows EXCEPT ![ei].isActive = TRUE]

\* Mutant: the update of the prior requests matches nothing
ApprovePriorRequests_Skip(reqs, classId, studentId) == reqs

\* Mutant: the update matches the pair's requests whatever their status and
\* clears who processed them
ApprovePriorRequests_AnyStatus(reqs, classId, studentId) ==
    [i \in 1..Len(reqs) |->
        IF reqs[i].classId = classId /\ reqs[i].studentId = studentId
        THEN [reqs[i] EXCEPT !.status = "approved", !.processedBy = "none"]
        ELSE reqs[i]]

\* classJoinRequestCollection.updateMany({classId, studentId,
\*     status: {$in: ['pending', 'rejected']}}, {status: 'approved'})
ApprovePriorRequests(reqs, classId, studentId) ==
    [i \in 1..Len(reqs) |->
        IF /\ reqs[i].classId = classId
           /\ reqs[i].studentId = studentId
           /\ reqs[i].status \in {"pending", "rejected"}
        THEN [reqs[i] EXCEPT !.status = "approved"]
        ELSE reqs[i]]

\* Mutant: the counter is set to one instead of incremented
IncrementUsage_Reset(codes, ci) == [codes EXCEPT ![ci].usageCount = 1]

\* Mutant: the counter is incremented by two
IncrementUsage_Twice(codes, ci) == [codes EXCEPT ![ci].usageCount = @ + 2]

\* classJoinCodeCollection.findByIdAndUpdate(codeDoc._id, {$inc: {usageCount: 1}})
IncrementUsage(codes, ci) == [codes EXCEPT ![ci].usageCount = @ + 1]

\* classStudentCollection.countDocuments({classId, isActive: true})
CountActiveStudents(rows, classId) ==
    CountDocuments({i \in 1..Len(rows) : rows[i].classId = classId /\ rows[i].isActive})

\* Mutant: the counter is not written back
SetStudentCount_Skip(cls, classId, n) == cls

\* classCollection.findByIdAndUpdate(classId, {studentCount: totalActiveStudents})
SetStudentCount(cls, classId, n) ==
    IF classId \in DOMAIN cls THEN [cls EXCEPT ![classId].studentCount = n] ELSE cls

\* Mutant: the delete matches nothing
DeleteRequest_Keep(reqs, id) == reqs

\* The positions of the requests with this _id
RequestsWithIdIn(reqs, id) == {i \in 1..Len(reqs) : reqs[i].id = id}

\* classJoinRequestCollection.deleteOne({_id})
DeleteRequest(reqs, id) ==
    LET ri == FindOneIdx({i \in 1..Len(reqs) : reqs[i].id = id})
    IN IF ri = 0 THEN reqs
       ELSE [i \in 1..(Len(reqs) - 1) |-> IF i < ri THEN reqs[i] ELSE reqs[i + 1]]

\* The document classJoinRequestCollection.create stores; status defaults to pending
NewJoinRequest(id, classId, studentId) ==
    [id |-> id, classId |-> classId, studentId |-> studentId, status |-> "pending",
     processedBy |-> "none", rejectionReason |-> "none"]

----------------------------------------------------------------------------
(* POST /:classId/join-requests/:requestId/:action *)

\* Mutant: the query leaves out the status
PendingRequestById_AnyStatus(reqs, requestId, classId) ==
    FindOneIdx({i \in 1..Len(reqs) :
                  reqs[i].id = requestId /\ reqs[i].classId = classId})

\* classJoinRequestCollection.findOne({_id, classId, status: 'pending'})
PendingRequestById(reqs, requestId, classId) ==
    FindOneIdx({i \in 1..Len(reqs) :
                  /\ reqs[i].id = requestId
                  /\ reqs[i].classId = classId
                  /\ reqs[i].status = "pending"})

\* joinRequestSchema.methods.approve
approve(reqs, ri, teacherId) ==
    [reqs EXCEPT ![ri].status = "approved", ![ri].processedBy = teacherId]

\* Mutant: the reason is not stored
reject_NoReason(reqs, ri, teacherId, reason) ==
    [reqs EXCEPT ![ri].status = "rejected", ![ri].processedBy = teacherId]

\* joinRequestSchema.methods.reject
reject(reqs, ri, teacherId, reason) ==
    [reqs EXCEPT ![ri].status = "rejected", ![ri].processedBy = teacherId,
                 ![ri].rejectionReason = reason]

\* The document classStudentCollection.create stores on approval
NewEnrollment(classId, studentId) ==
    [classId |-> classId, studentId |-> studentId, isActive |-> TRUE]

\* The enrollment rows after an approval: reactivate the row or create one
EnrollApproved(rows, ei, classId, studentId) ==
    IF ei # 0
    THEN ReactivateEnrollment(rows, ei)
    ELSE InsertDoc(rows, NewEnrollment(classId, studentId))

----------------------------------------------------------------------------
(* DELETE /class/:classId/student/:studentId: the enrollment is soft-deleted *)

RemoveStudent(classId, studentId) ==
    LET ei == ActiveEnrollmentIdx(classId, studentId)
    IN /\ Quiet
       /\ ei # 0
       /\ MayGrow
       /\ Grow
       /\ enrollments' = [enrollments EXCEPT ![ei].isActive = FALSE]
       /\ \E recount \in BOOLEAN :
            classes' = IF recount
                       THEN SetStudentCount(classes, classId,
                                            CountActiveStudents(enrollments', classId))
                       ELSE classes
       /\ resp' = Response("remove", 200, "Removed")
       /\ UNCHANGED <<now, joinCodes, joinRequests, nextRequestId, procs>>

----------------------------------------------------------------------------
(* POST /class/:classId/add-student: the teacher enrolls a student without *)
(* a join request.  One logical row per (class, student) pair: an absent   *)
(* row is created, an inactive one is reactivated.                         *)

AddStudent(classId, studentId) ==
    LET ei == EnrollmentIdx(enrollments, classId, studentId)
    IN /\ Quiet
       /\ IF ei = 0 THEN TRUE ELSE ~enrollments[ei].isActive
       /\ MayGrow
       /\ Grow
       /\ enrollments' = EnrollApproved(enrollments, ei, classId, studentId)
       /\ \E recount \in BOOLEAN :
            classes' = IF recount
                       THEN SetStudentCount(classes, classId,
                                            CountActiveStudents(enrollments', classId))
                       ELSE classes
       /\ resp' = Response("add", 200, "Added")
       /\ UNCHANGED <<now, joinCodes, joinRequests, nextRequestId, procs>>

----------------------------------------------------------------------------
(* POST /:classId/generate-join-code, one database operation per step *)

\* The request arrives: req.params.classId, teacherId from the session
Issue_Begin(p) ==
    /\ procs[p].pc = "idle"
    /\ \E c \in ClassIds, t \in Teachers :
         procs' = [procs EXCEPT ![p].op = "issue", ![p].classId = c,
                                ![p].teacherId = t, ![p].pre = Snapshot,
                                ![p].began = now, ![p].pc = "findClass"]
    /\ resp' = NoResponse
    /\ UNCHANGED <<now, db, ops>>

\* const classDoc = await classCollection.findOne(...)
Issue_FindClass(p) ==
    /\ procs[p].pc = "findClass"
    /\ procs[p].op = "issue"
    /\ IF OwnsClass(procs[p].classId, procs[p].teacherId)
       THEN Goto(p, "deactivate")
       ELSE Finish(p, "NotFound")
    /\ UNCHANGED <<now, db, ops, resp>>

\* await classJoinCodeCollection.updateMany({classId, isActive: true}, ...)
Issue_Deactivate(p) ==
    /\ procs[p].pc = "deactivate"
    /\ procs[p].op = "issue"
    /\ MayGrow
    /\ joinCodes' = DeactivateCodes(joinCodes, procs[p].classId)
    /\ Goto(p, "generate")
    /\ UNCHANGED <<now, classes, joinRequests, nextRequestId, enrollments, ops, resp>>

\* const joinCode = await classJoinCodeCollection.generateUniqueCode(), and
\* the Date.now() of the expiry, read before the create is sent
Issue_Generate(p) ==
    /\ procs[p].pc = "generate"
    /\ procs[p].op = "issue"
    /\ \E value \in UniqueCodes(joinCodes) :
         procs' = [procs EXCEPT ![p].pc = "create", ![p].value = value,
                                ![p].at = now]
    /\ UNCHANGED <<now, db, ops, resp>>

\* const newJoinCode = await classJoinCodeCollection.create(...)
Issue_Create(p) ==
    /\ procs[p].pc = "create"
    /\ procs[p].op = "issue"
    /\ MayGrow
    /\ Grow
    /\ joinCodes' = InsertDoc(joinCodes,
                              NewJoinCode(procs[p].classId, procs[p].teacherId,
                                          procs[p].value, procs[p].at))
    /\ Finish(p, "Issued")
    /\ UNCHANGED <<now, classes, joinRequests, nextRequestId, enrollments, resp>>

----------------------------------------------------------------------------
(* GET /validate-join-code/:code, one database operation per step *)

\* The request arrives: req.params.code, studentId from the session
Validate_Begin(p) ==
    /\ procs[p].pc = "idle"
    /\ \E code \in CodeInputs, s \in Students :
         procs' = [procs EXCEPT ![p].op = "validate", ![p].code = code,
                                ![p].studentId = s, ![p].pre = Snapshot,
                                ![p].began = now, ![p].pc = "findCode"]
    /\ resp' = NoResponse
    /\ UNCHANGED <<now, db, ops>>

\* const codeDoc = await classJoinCodeCollection.findOne(...), and the checks
\* made on the document before the next await
Validate_FindCode(p) ==
    /\ procs[p].pc = "findCode"
    /\ procs[p].op = "validate"
    /\ LET ci == FindActiveCode(joinCodes, ToUpperCase(procs[p].code))
       IN IF ci = 0
          THEN Finish(p, "InvalidCode")
          ELSE IF isExpired(joinCodes[ci])
          THEN procs' = [procs EXCEPT ![p].pc = "expire", ![p].ci = ci,
                                      ![p].at = now]
          ELSE IF ~canBeUsed(joinCodes[ci])
          THEN procs' = [procs EXCEPT ![p].pc = "done", ![p].ci = ci,
                                      ![p].result = "UsageExceeded",
                                      ![p].at = now]
          ELSE procs' = [procs EXCEPT ![p].pc = "findEnrollment", ![p].ci = ci,
                                      ![p].classId = joinCodes[ci].classId,
                                      ![p].at = now]
    /\ UNCHANGED <<now, db, ops, resp>>

\* await classJoinCodeCollection.findByIdAndUpdate(codeDoc._id, {isActive: false})
Validate_Expire(p) ==
    /\ procs[p].pc = "expire"
    /\ procs[p].op = "validate"
    /\ joinCodes' = ExpireCode(joinCodes, procs[p].ci)
    /\ Finish(p, "Expired")
    /\ UNCHANGED <<now, classes, joinRequests, nextRequestId, enrollments, ops, resp>>

\* const existingEnrollment = await classStudentCollection.findOne(...)
Validate_FindEnrollment(p) ==
    /\ procs[p].pc = "findEnrollment"
    /\ procs[p].op = "validate"
    /\ IF ActiveEnrollmentIdx(procs[p].classId, procs[p].studentId) # 0
       THEN Finish(p, "AlreadyEnrolled")
       ELSE Goto(p, "findRequest")
    /\ UNCHANGED <<now, db, ops, resp>>

\* const existingRequest = await classJoinRequestCollection.findOne(...)
Validate_FindRequest(p) ==
    /\ procs[p].pc = "findRequest"
    /\ procs[p].op = "validate"
    /\ IF PendingRequestIdx(procs[p].classId, procs[p].studentId) # 0
       THEN Finish(p, "RequestPending")
       ELSE Finish(p, "Valid")
    /\ UNCHANGED <<now, db, ops, resp>>

----------------------------------------------------------------------------
(* POST /join-request, one database operation per step *)

\* The request arrives: const { joinCode } = req.body; studentId from the
\* session; if (!joinCode) is answered before the first await
Submit_Begin(p) ==
    /\ procs[p].pc = "idle"
    /\ \E code \in BodyCodes, s \in SessionStudents :
         procs' = [procs EXCEPT
                     ![p].op = "submit", ![p].code = code,
                     ![p].studentId = s, ![p].pre = Snapshot,
                     ![p].began = now,
                     ![p].pc = IF code = "" THEN "done" ELSE "findStudent",
                     ![p].result = IF code = "" THEN "CodeRequired" ELSE "none"]
    /\ resp' = NoResponse
    /\ UNCHANGED <<now, db, ops>>

\* studentCollection.findById(studentId)
StudentById(coll, id) == FindOneIdx({i \in 1..Len(coll) : coll[i].id = id})

\* const student = await studentCollection.findById(studentId).select('enrollment')
Submit_FindStudent(p) ==
    /\ procs[p].pc = "findStudent"
    /\ procs[p].op = "submit"
    /\ IF StudentById(studentCollection, procs[p].studentId) = 0
       THEN Finish(p, "StudentNotFound")
       ELSE Goto(p, "findCode")
    /\ UNCHANGED <<now, db, ops, resp>>

\* const codeDoc = await classJoinCodeCollection.findOne(...), and the check on it
Submit_FindCode(p) ==
    /\ procs[p].pc = "findCode"
    /\ procs[p].op = "submit"
    /\ LET ci == FindActiveCode(joinCodes, ToUpperCase(procs[p].code))
       IN IF CodeUnusable(joinCodes, ci)
          THEN procs' = [procs EXCEPT ![p].pc = "done", ![p].ci = ci,
                                      ![p].result = "CodeUnusable",
                                      ![p].at = now]
          ELSE procs' = [procs EXCEPT ![p].pc = "findEnrollment", ![p].ci = ci,
                                      ![p].classId = joinCodes[ci].classId,
                                      ![p].at = now]
    /\ UNCHANGED <<now, db, ops, resp>>

\* const existingClassStudentEntry = await classStudentCollection.findOne(...)
Submit_FindEnrollment(p) ==
    /\ procs[p].pc = "findEnrollment"
    /\ procs[p].op = "submit"
    /\ LET ei == EnrollmentIdx(enrollments, procs[p].classId, procs[p].studentId)
       IN IF ei # 0 /\ enrollments[ei].isActive
          THEN Finish(p, "AlreadyEnrolled")
          ELSE IF ei # 0
          THEN procs' = [procs EXCEPT ![p].pc = "reactivate", ![p].ei = ei]
          ELSE Goto(p, "findRequest")
    /\ UNCHANGED <<now, db, ops, resp>>

\* await classStudentCollection.findByIdAndUpdate(existingClassStudentEntry._id, ...)
Submit_Reactivate(p) ==
    /\ procs[p].pc = "reactivate"
    /\ procs[p].op = "submit"
    /\ enrollments' = ReactivateEnrollment(enrollments, procs[p].ei)
    /\ Goto(p, "approvePrior")
    /\ UNCHANGED <<now, classes, joinCodes, joinRequests, nextRequestId, ops, resp>>

\* await classJoinRequestCollection.updateMany(...)
Submit_ApprovePrior(p) ==
    /\ procs[p].pc = "approvePrior"
    /\ procs[p].op = "submit"
    /\ joinRequests' = ApprovePriorRequests(joinRequests, procs[p].classId,
                                            procs[p].studentId)
    /\ Goto(p, "rejoinUsage")
    /\ UNCHANGED <<now, classes, joinCodes, nextRequestId, enrollments, ops, resp>>

\* await classJoinCodeCollection.findByIdAndUpdate(codeDoc._id, {$inc: ...})
Submit_RejoinUsage(p) ==
    /\ procs[p].pc = "rejoinUsage"
    /\ procs[p].op = "submit"
    /\ joinCodes' = IncrementUsage(joinCodes, procs[p].ci)
    /\ Goto(p, "rejoinCount")
    /\ UNCHANGED <<now, classes, joinRequests, nextRequestId, enrollments, ops, resp>>

\* const totalActiveStudents = await classStudentCollection.countDocuments(...)
Submit_RejoinCount(p) ==
    /\ procs[p].pc = "rejoinCount"
    /\ procs[p].op = "submit"
    /\ procs' = [procs EXCEPT ![p].pc = "rejoinSetCount",
                              ![p].total = CountActiveStudents(enrollments,
                                                               procs[p].classId)]
    /\ UNCHANGED <<now, db, ops, resp>>

\* await classCollection.findByIdAndUpdate(codeDoc.classId, {studentCount: ...})
Submit_RejoinSetCount(p) ==
    /\ procs[p].pc = "rejoinSetCount"
    /\ procs[p].op = "submit"
    /\ classes' = SetStudentCount(classes, procs[p].classId, procs[p].total)
    /\ Finish(p, "Rejoined")
    /\ UNCHANGED <<now, joinCodes, joinRequests, nextRequestId, enrollments, ops, resp>>

\* const existingJoinRequest = await classJoinRequestCollection.findOne(...)
Submit_FindRequest(p) ==
    /\ procs[p].pc = "findRequest"
    /\ procs[p].op = "submit"
    /\ LET ri == RequestIdx(joinRequests, procs[p].classId, procs[p].studentId)
       IN IF ri # 0 /\ joinRequests[ri].status = "pending"
          THEN Finish(p, "RequestPending")
          ELSE IF ri # 0 /\ joinRequests[ri].status = "rejected"
          THEN procs' = [procs EXCEPT ![p].pc = "deleteRejected",
                                      ![p].rid = joinRequests[ri].id]
          ELSE Goto(p, "create")
    /\ UNCHANGED <<now, db, ops, resp>>

\* await classJoinRequestCollection.deleteOne({_id: existingJoinRequest._id})
Submit_DeleteRejected(p) ==
    /\ procs[p].pc = "deleteRejected"
    /\ procs[p].op = "submit"
    /\ MayGrow
    /\ joinRequests' = DeleteRequest(joinRequests, procs[p].rid)
    /\ Goto(p, "create")
    /\ UNCHANGED <<now, classes, joinCodes, nextRequestId, enrollments, ops, resp>>

\* const joinRequest = await classJoinRequestCollection.create(...); a
\* duplicate key is caught and answered with 400 (lines 1173-1178)
Submit_Create(p) ==
    LET doc == NewJoinRequest(nextRequestId, procs[p].classId, procs[p].studentId)
    IN /\ procs[p].pc = "create"
       /\ procs[p].op = "submit"
       /\ IF DuplicateKey(joinRequests, doc)
          THEN /\ Finish(p, "DuplicateRequest")
               /\ UNCHANGED <<joinRequests, nextRequestId, ops>>
          ELSE /\ MayGrow
               /\ Grow
               /\ joinRequests' = Append(joinRequests, doc)
               /\ nextRequestId' = nextRequestId + 1
               /\ Goto(p, "usage")
       /\ UNCHANGED <<now, classes, joinCodes, enrollments, resp>>

\* await classJoinCodeCollection.findByIdAndUpdate(codeDoc._id, {$inc: ...})
Submit_Usage(p) ==
    /\ procs[p].pc = "usage"
    /\ procs[p].op = "submit"
    /\ joinCodes' = IncrementUsage(joinCodes, procs[p].ci)
    /\ Finish(p, "RequestCreated")
    /\ UNCHANGED <<now, classes, joinRequests, nextRequestId, enrollments, ops, resp>>

----------------------------------------------------------------------------
(* POST /:classId/join-requests/:requestId/:action, one database operation *)
(* per step                                                                *)

\* Mutant: every action passes
ValidAction_Any(action) == TRUE

\* if (!['approve', 'reject'].includes(action))
ValidAction(action) == action \in {"approve", "reject"}

\* The position of the request document the handler holds
HeldRequest(p) == FindOneIdx(RequestsWithIdIn(joinRequests, procs[p].rid))

\* The request arrives; the action is checked before the first await
Resolve_Begin(p) ==
    /\ procs[p].pc = "idle"
    /\ \E c \in ClassIds, id \in 1..nextRequestId, a \in ResolveActions,
          t \in Teachers :
         procs' = [procs EXCEPT
                     ![p].op = "resolve", ![p].classId = c, ![p].rid = id,
                     ![p].action = a, ![p].teacherId = t, ![p].pre = Snapshot,
                     ![p].began = now,
                     ![p].pc = IF ValidAction(a) THEN "findClass" ELSE "done",
                     ![p].result = IF ValidAction(a) THEN "none"
                                   ELSE "InvalidAction"]
    /\ resp' = NoResponse
    /\ UNCHANGED <<now, db, ops>>

\* const classDoc = await classCollection.findOne(...)
Resolve_FindClass(p) ==
    /\ procs[p].pc = "findClass"
    /\ procs[p].op = "resolve"
    /\ IF OwnsClass(procs[p].classId, procs[p].teacherId)
       THEN Goto(p, "findRequest")
       ELSE Finish(p, "ClassNotFound")
    /\ UNCHANGED <<now, db, ops, resp>>

\* const joinRequest = await classJoinRequestCollection.findOne(...)
Resolve_FindRequest(p) ==
    /\ procs[p].pc = "findRequest"
    /\ procs[p].op = "resolve"
    /\ LET ri == PendingRequestById(joinRequests, procs[p].rid, procs[p].classId)
       IN IF ri = 0
          THEN Finish(p, "RequestNotFound")
          ELSE procs' = [procs EXCEPT
                           ![p].studentId = joinRequests[ri].studentId,
                           ![p].pc = IF procs[p].action = "approve"
                                     THEN "findEnrollment" ELSE "rejectSave"]
    /\ UNCHANGED <<now, db, ops, resp>>

\* const existingEnrollment = await classStudentCollection.findOne(...)
Resolve_FindEnrollment(p) ==
    /\ procs[p].pc = "findEnrollment"
    /\ procs[p].op = "resolve"
    /\ LET ei == EnrollmentIdx(enrollments, procs[p].classId, procs[p].studentId)
       IN procs' = [procs EXCEPT
                      ![p].ei = ei,
                      ![p].pc = IF ei = 0 THEN "createEnrollment"
                                ELSE IF enrollments[ei].isActive THEN "approveEnrolled"
                                ELSE "reactivate"]
    /\ UNCHANGED <<now, db, ops, resp>>

\* await joinRequest.approve(teacherId); return res.status(400)
Resolve_ApproveEnrolled(p) ==
    /\ procs[p].pc = "approveEnrolled"
    /\ procs[p].op = "resolve"
    /\ joinRequests' = approve(joinRequests, HeldRequest(p), procs[p].teacherId)
    /\ Finish(p, "AlreadyEnrolled")
    /\ UNCHANGED <<now, classes, joinCodes, nextRequestId, enrollments, ops, resp>>

\* await classStudentCollection.findByIdAndUpdate(existingEnrollment._id, ...)
Resolve_Reactivate(p) ==
    /\ procs[p].pc = "reactivate"
    /\ procs[p].op = "resolve"
    /\ enrollments' = ReactivateEnrollment(enrollments, procs[p].ei)
    /\ Goto(p, "approveSave")
    /\ UNCHANGED <<now, classes, joinCodes, joinRequests, nextRequestId, ops, resp>>

\* await classStudentCollection.create(...)
Resolve_CreateEnrollment(p) ==
    /\ procs[p].pc = "createEnrollment"
    /\ procs[p].op = "resolve"
    /\ enrollments' = InsertDoc(enrollments,
                                NewEnrollment(procs[p].classId, procs[p].studentId))
    /\ Goto(p, "approveSave")
    /\ UNCHANGED <<now, classes, joinCodes, joinRequests, nextRequestId, ops, resp>>

\* await joinRequest.approve(teacherId)
Resolve_ApproveSave(p) ==
    /\ procs[p].pc = "approveSave"
    /\ procs[p].op = "resolve"
    /\ joinRequests' = approve(joinRequests, HeldRequest(p), procs[p].teacherId)
    /\ Goto(p, "count")
    /\ UNCHANGED <<now, classes, joinCodes, nextRequestId, enrollments, ops, resp>>

\* const totalActiveStudents = await classStudentCollection.countDocuments(...)
Resolve_Count(p) ==
    /\ procs[p].pc = "count"
    /\ procs[p].op = "resolve"
    /\ procs' = [procs EXCEPT ![p].pc = "setCount",
                              ![p].total = CountActiveStudents(enrollments,
                                                               procs[p].classId)]
    /\ UNCHANGED <<now, db, ops, resp>>

\* await classCollection.findByIdAndUpdate(classId, {studentCount: ...})
Resolve_SetCount(p) ==
    /\ procs[p].pc = "setCount"
    /\ procs[p].op = "resolve"
    /\ classes' = SetStudentCount(classes, procs[p].classId, procs[p].total)
    /\ Finish(p, "Approved")
    /\ UNCHANGED <<now, joinCodes, joinRequests, nextRequestId, enrollments, ops, resp>>

\* await joinRequest.reject(teacherId, 'Request rejected by teacher')
Resolve_RejectSave(p) ==
    /\ procs[p].pc = "rejectSave"
    /\ procs[p].op = "resolve"
    /\ joinRequests' = reject(joinRequests, HeldRequest(p), procs[p].teacherId,
                              "Request rejected by teacher")
    /\ Finish(p, "Rejected")
    /\ UNCHANGED <<now, classes, joinCodes, nextRequestId, enrollments, ops, resp>>

----------------------------------------------------------------------------
(* The answer leaves: res.status(...).json(...), res.render(...) or        *)
(* res.redirect(...).  The slot is free again.                             *)

\* res.status(...) of each branch
StatusOf(result) ==
    IF result \in {"Issued", "Valid", "RequestCreated", "Rejoined", "Approved",
                   "Rejected"} THEN 200
    ELSE IF result \in {"Reset", "InvalidToken", "Mismatch", "TooShort",
                        "Verified", "EmailUpdated", "AlreadyVerified",
                        "InvalidLink"} THEN 200
    ELSE IF result \in {"Created", "EmailTaken", "EnrollmentTaken",
                        "SessionError", "SignupFailed"} THEN 200
    ELSE IF result \in {"Registered", MsgEmailRequired, MsgResetSent,
                        MsgResetSentInbox, MsgResetMailFailed} THEN 302
    ELSE IF result \in {"NotFound", "InvalidCode", "ClassNotFound",
                        "RequestNotFound", "StudentNotFound"} THEN 404
    ELSE 400

Answer(p) ==
    /\ procs[p].pc = "done"
    /\ resp' = IF procs[p].reply # NoResponse THEN procs[p].reply
               ELSE Response(procs[p].op, StatusOf(procs[p].result),
                             procs[p].result)
    /\ procs' = [procs EXCEPT ![p] = IdleProc]
    /\ UNCHANGED <<now, db, ops>>

----------------------------------------------------------------------------
(* The steps of whichever slot can take one *)

IssueBegin == (\E p \in DOMAIN procs : Issue_Begin(p)) /\ UNCHANGED accounts
IssueFindClass == (\E p \in DOMAIN procs : Issue_FindClass(p)) /\ UNCHANGED accounts
IssueDeactivate == (\E p \in DOMAIN procs : Issue_Deactivate(p)) /\ UNCHANGED accounts
IssueGenerate == (\E p \in DOMAIN procs : Issue_Generate(p)) /\ UNCHANGED accounts
IssueCreate == (\E p \in DOMAIN procs : Issue_Create(p)) /\ UNCHANGED accounts
ValidateBegin == (\E p \in DOMAIN procs : Validate_Begin(p)) /\ UNCHANGED accounts
ValidateFindCode == (\E p \in DOMAIN procs : Validate_FindCode(p)) /\ UNCHANGED accounts
ValidateExpire == (\E p \in DOMAIN procs : Validate_Expire(p)) /\ UNCHANGED accounts
ValidateFindEnrollment == (\E p \in DOMAIN procs : Validate_FindEnrollment(p)) /\ UNCHANGED accounts
ValidateFindRequest == (\E p \in DOMAIN procs : Validate_FindRequest(p)) /\ UNCHANGED accounts
SubmitBegin == (\E p \in DOMAIN procs : Submit_Begin(p)) /\ UNCHANGED accounts
SubmitFindStudent == (\E p \in DOMAIN procs : Submit_FindStudent(p)) /\ UNCHANGED accounts
SubmitFindCode == (\E p \in DOMAIN procs : Submit_FindCode(p)) /\ UNCHANGED accounts
SubmitFindEnrollment == (\E p \in DOMAIN procs : Submit_FindEnrollment(p)) /\ UNCHANGED accounts
SubmitReactivate == (\E p \in DOMAIN procs : Submit_Reactivate(p)) /\ UNCHANGED accounts
SubmitApprovePrior == (\E p \in DOMAIN procs : Submit_ApprovePrior(p)) /\ UNCHANGED accounts
SubmitRejoinUsage == (\E p \in DOMAIN procs : Submit_RejoinUsage(p)) /\ UNCHANGED accounts
SubmitRejoinCount == (\E p \in DOMAIN procs : Submit_RejoinCount(p)) /\ UNCHANGED accounts
SubmitRejoinSetCount == (\E p \in DOMAIN procs : Submit_RejoinSetCount(p)) /\ UNCHANGED accounts
SubmitFindRequest == (\E p \in DOMAIN procs : Submit_FindRequest(p)) /\ UNCHANGED accounts
SubmitDeleteRejected == (\E p \in DOMAIN procs : Submit_DeleteRejected(p)) /\ UNCHANGED accounts
SubmitCreate == (\E p \in DOMAIN procs : Submit_Create(p)) /\ UNCHANGED accounts
SubmitUsage == (\E p \in DOMAIN procs : Submit_Usage(p)) /\ UNCHANGED accounts
ResolveBegin == (\E p \in DOMAIN procs : Resolve_Begin(p)) /\ UNCHANGED accounts
ResolveFindClass == (\E p \in DOMAIN procs : Resolve_FindClass(p)) /\ UNCHANGED accounts
ResolveFindRequest == (\E p \in DOMAIN procs : Resolve_FindRequest(p)) /\ UNCHANGED accounts
ResolveFindEnrollment == (\E p \in DOMAIN procs : Resolve_FindEnrollment(p)) /\ UNCHANGED accounts
ResolveApproveEnrolled == (\E p \in DOMAIN procs : Resolve_ApproveEnrolled(p)) /\ UNCHANGED accounts
ResolveReactivate == (\E p \in DOMAIN procs : Resolve_Reactivate(p)) /\ UNCHANGED accounts
ResolveCreateEnrollment == (\E p \in DOMAIN procs : Resolve_CreateEnrollment(p)) /\ UNCHANGED accounts
ResolveApproveSave == (\E p \in DOMAIN procs : Resolve_ApproveSave(p)) /\ UNCHANGED accounts
ResolveCount == (\E p \in DOMAIN procs : Resolve_Count(p)) /\ UNCHANGED accounts
ResolveSetCount == (\E p \in DOMAIN procs : Resolve_SetCount(p)) /\ UNCHANGED accounts
ResolveRejectSave == (\E p \in DOMAIN procs : Resolve_RejectSave(p)) /\ UNCHANGED accounts
AnswerSent == (\E p \in DOMAIN procs : Answer(p)) /\ UNCHANGED accounts

Remove ==
    /\ \E c \in ExistingClassIds, s \in Students : RemoveStudent(c, s)
    /\ UNCHANGED accounts

Add ==
    /\ \E c \in ExistingClassIds, s \in Students : AddStudent(c, s)
    /\ UNCHANGED accounts

----------------------------------------------------------------------------
(* Handlers run one at a time: one request slot.  A request runs from its  *)
(* arrival to its answer before the next arrives; the clock moves between  *)
(* requests and between the awaits of a request, the teacher's roster     *)
(* routes run between requests.                                            *)

Next ==
    \/ Tick \/ IssueBegin \/ IssueFindClass \/ IssueDeactivate
    \/ IssueGenerate \/ IssueCreate \/ ValidateBegin \/ ValidateFindCode
    \/ ValidateExpire \/ ValidateFindEnrollment \/ ValidateFindRequest
    \/ SubmitBegin \/ SubmitFindStudent \/ SubmitFindCode
    \/ SubmitFindEnrollment \/ SubmitReactivate \/ SubmitApprovePrior
    \/ SubmitRejoinUsage \/ SubmitRejoinCount \/ SubmitRejoinSetCount
    \/ SubmitFindRequest \/ SubmitDeleteRejected \/ SubmitCreate
    \/ SubmitUsage \/ ResolveBegin \/ ResolveFindClass \/ ResolveFindRequest
    \/ ResolveFindEnrollment \/ ResolveApproveEnrolled \/ ResolveReactivate
    \/ ResolveCreateEnrollment \/ ResolveApproveSave \/ ResolveCount
    \/ ResolveSetCount \/ ResolveRejectSave \/ AnswerSent \/ Remove \/ Add

Spec == Init /\ [][Next]_vars

----------------------------------------------------------------------------
(* Handlers run one at a time, started from a store in which student s1   *)
(* has both a join request and an enrollment row for class c1.  The        *)
(* teacher issued a code, s1 submitted it, and then: the teacher added s1  *)
(* through the roster route (request pending, row active); removed s1      *)
(* again (request pending, row inactive); rejected the request in between  *)
(* (request rejected, row inactive); or approved the request and removed   *)
(* s1 (request approved, row inactive), in the last start with a rejected  *)
(* request of student s2 beside it.  The roster operations are counted in  *)
(* the budget of the run.                                                  *)

\* The code of class c1, issued at time 0 and used so many times
ConcCode(used) == [WarmCode EXCEPT !.usageCount = used]

RejoinStarts ==
    { [reqs |-> <<StoredRequest(1, "s1", "pending")>>, active |-> TRUE],
      [reqs |-> <<StoredRequest(1, "s1", "pending")>>, active |-> FALSE],
      [reqs |-> <<StoredRequest(1, "s1", "rejected")>>, active |-> FALSE],
      [reqs |-> <<StoredRequest(1, "s1", "approved")>>, active |-> FALSE],
      [reqs |-> <<StoredRequest(1, "s1", "approved"),
                  StoredRequest(2, "s2", "rejected")>>, active |-> FALSE] }

RejoinInit ==
    /\ KnownAccounts
    /\ now = 0
    /\ ops = 1
    /\ resp = NoResponse
    /\ procs = <<IdleProc>>
    /\ \E start \in RejoinStarts :
         /\ joinCodes = <<ConcCode(Len(start.reqs))>>
         /\ joinRequests = start.reqs
         /\ nextRequestId = Len(start.reqs) + 1
         /\ enrollments = <<[classId |-> "c1", studentId |-> "s1",
                             isActive |-> start.active]>>
         /\ classes = SetStudentCount(ColdClasses, "c1",
                                      IF start.active THEN 1 ELSE 0)

SpecRejoin == RejoinInit /\ [][Next]_vars

----------------------------------------------------------------------------
(* Two POST /join-request calls interleaved at the granularity of database *)
(* operations: two request slots.  The clock stands still.                 *)

\* The database states the interleaved runs start from, each one reachable
\* with handlers run one at a time: class c1 has an active code, and student
\* s1 has no document, a rejected request, or an inactive enrollment whose
\* request was approved.
\* The request of student s1, as StoredRequest leaves it
ConcRequest(status) == StoredRequest(1, "s1", status)

ConcStarts ==
    { [codes |-> <<ConcCode(0)>>, reqs |-> <<>>, rows |-> <<>>],
      [codes |-> <<ConcCode(1)>>, reqs |-> <<ConcRequest("rejected")>>, rows |-> <<>>],
      [codes |-> <<ConcCode(MaxUsage - 1)>>, reqs |-> <<ConcRequest("rejected")>>,
       rows |-> <<>>],
      [codes |-> <<ConcCode(1)>>, reqs |-> <<ConcRequest("approved")>>,
       rows |-> <<[classId |-> "c1", studentId |-> "s1", isActive |-> FALSE]>>] }

ConcInit ==
    /\ KnownAccounts
    /\ now = 0
    /\ classes = ColdClasses
    /\ ops = 0
    /\ resp = NoResponse
    /\ procs = [p \in Procs |-> IdleProc]
    /\ \E start \in ConcStarts :
         /\ joinCodes = start.codes
         /\ joinRequests = start.reqs
         /\ nextRequestId = Len(start.reqs) + 1
         /\ enrollments = start.rows

ConcNext ==
    \/ SubmitBegin \/ SubmitFindStudent \/ SubmitFindCode
    \/ SubmitFindEnrollment \/ SubmitReactivate \/ SubmitApprovePrior
    \/ SubmitRejoinUsage \/ SubmitRejoinCount \/ SubmitRejoinSetCount
    \/ SubmitFindRequest \/ SubmitDeleteRejected \/ SubmitCreate
    \/ SubmitUsage

SpecConc == ConcInit /\ [][ConcNext]_vars

----------------------------------------------------------------------------
(* Two POST /:classId/join-requests/:requestId/:action calls on class c1,  *)
(* interleaved at the granularity of database operations.  The store       *)
(* starts with the pending requests of students s1 and s2 (two submits);   *)
(* s1 has no enrollment row, or an inactive one (the teacher added s1      *)
(* through the roster route and removed s1 again).                         *)

ResolveStarts ==
    { [reqs |-> <<NewJoinRequest(1, "c1", "s1"), NewJoinRequest(2, "c1", "s2")>>,
       rows |-> <<>>],
      [reqs |-> <<NewJoinRequest(1, "c1", "s1"), NewJoinRequest(2, "c1", "s2")>>,
       rows |-> <<[classId |-> "c1", studentId |-> "s1", isActive |-> FALSE]>>] }

ResolveConcInit ==
    /\ KnownAccounts
    /\ now = 0
    /\ classes = ColdClasses
    /\ ops = 0
    /\ resp = NoResponse
    /\ procs = [p \in Procs |-> IdleProc]
    /\ joinCodes = <<ConcCode(2)>>
    /\ \E start \in ResolveStarts :
         /\ joinRequests = start.reqs
         /\ nextRequestId = Len(start.reqs) + 1
         /\ enrollments = start.rows

ResolveConcNext ==
    \/ ResolveBegin \/ ResolveFindClass \/ ResolveFindRequest
    \/ ResolveFindEnrollment \/ ResolveApproveEnrolled \/ ResolveReactivate
    \/ ResolveCreateEnrollment \/ ResolveApproveSave \/ ResolveCount
    \/ ResolveSetCount \/ ResolveRejectSave

SpecConcResolve == ResolveConcInit /\ [][ResolveConcNext]_vars

----------------------------------------------------------------------------
(* Two POST /c1/generate-join-code calls, interleaved at the granularity   *)
(* of database operations.  Class c1 starts without a code or with an      *)
(* active one.                                                             *)

IssueStarts == { <<>>, <<ConcCode(0)>> }

IssueConcInit ==
    /\ KnownAccounts
    /\ now = 0
    /\ classes = ColdClasses
    /\ ops = 0
    /\ resp = NoResponse
    /\ procs = [p \in Procs |-> IdleProc]
    /\ joinCodes \in IssueStarts
    /\ joinRequests = <<>>
    /\ nextRequestId = 1
    /\ enrollments = <<>>

IssueConcNext ==
    \/ IssueBegin \/ IssueFindClass \/ IssueDeactivate \/ IssueGenerate
    \/ IssueCreate

SpecConcIssue == IssueConcInit /\ [][IssueConcNext]_vars

----------------------------------------------------------------------------
(* Two GET /validate-join-code/:code calls, interleaved at the granularity *)
(* of database operations, while the clock moves.  The store is the one    *)
(* the handlers leave: after the code of class c1 was issued; after        *)
(* student s1 submitted it; after the teacher approved that request; or    *)
(* with the code at its cap, s1 having re-submitted after each rejection.  *)

ValidateStarts ==
    { [codes |-> <<ConcCode(0)>>, reqs |-> <<>>, rows |-> <<>>],
      [codes |-> <<ConcCode(1)>>, reqs |-> <<ConcRequest("pending")>>,
       rows |-> <<>>],
      [codes |-> <<ConcCode(1)>>, reqs |-> <<ConcRequest("approved")>>,
       rows |-> <<[classId |-> "c1", studentId |-> "s1", isActive |-> TRUE]>>],
      [codes |-> <<ConcCode(MaxUsage)>>, reqs |-> <<ConcRequest("rejected")>>,
       rows |-> <<>>] }

ValidateConcInit ==
    /\ KnownAccounts
    /\ now = 0
    /\ ops = 0
    /\ resp = NoResponse
    /\ procs = [p \in Procs |-> IdleProc]
    /\ \E start \in ValidateStarts :
         /\ joinCodes = start.codes
         /\ joinRequests = start.reqs
         /\ nextRequestId = Len(start.reqs) + 1
         /\ enrollments = start.rows
         /\ classes = SetStudentCount(ColdClasses, "c1", Len(start.rows))

ValidateConcNext ==
    \/ Tick \/ ValidateBegin \/ ValidateFindCode \/ ValidateExpire
    \/ ValidateFindEnrollment \/ ValidateFindRequest

SpecConcValidate == ValidateConcInit /\ [][ValidateConcNext]_vars

----------------------------------------------------------------------------
(* GET /:classId/active-join-code, one database operation per step,       *)
(* beside the handlers that create, age and retire join codes.             *)

\* Mutant: the query leaves out the expiry
ActiveUnexpiredCode_AnyAge(codes, classId, at) ==
    FindOneIdx({i \in 1..Len(codes) : codes[i].classId = classId /\ codes[i].isActive})

\* classJoinCodeCollection.findOne({classId, isActive: true,
\*                                  expiresAt: {$gt: new Date()}}); at is the
\* new Date() the query was built with
ActiveUnexpiredCode(codes, classId, at) ==
    FindOneIdx({i \in 1..Len(codes) : /\ codes[i].classId = classId
                                      /\ codes[i].isActive
                                      /\ codes[i].expiresAt > at})

\* Math.max(0, Math.floor((activeCode.expiresAt - new Date()) / 1000)); at is
\* the new Date() of this line
RemainingTime(codeDoc, at) ==
    LET seconds == (codeDoc.expiresAt - at) \div 1000
    IN IF seconds > 0 THEN seconds ELSE 0

\* The bodies of the two 200 answers
NoActiveCode ==
    [op |-> "active", status |-> 200, result |-> "NoActiveCode",
     hasActiveCode |-> FALSE]

HasActiveCode(codeDoc, at) ==
    [op |-> "active", status |-> 200, result |-> "HasActiveCode",
     hasActiveCode |-> TRUE, joinCode |-> codeDoc.joinCode,
     expiresAt |-> codeDoc.expiresAt, usageCount |-> codeDoc.usageCount,
     maxUsage |-> codeDoc.maxUsage, remainingTime |-> RemainingTime(codeDoc, at)]

\* The request arrives: req.params.classId, teacherId from the session
ActiveCode_Begin(p) ==
    /\ procs[p].pc = "idle"
    /\ \E c \in ClassIds, t \in Teachers :
         procs' = [procs EXCEPT ![p].op = "active", ![p].classId = c,
                                ![p].teacherId = t, ![p].pre = Snapshot,
                                ![p].began = now, ![p].pc = "findClass"]
    /\ resp' = NoResponse
    /\ UNCHANGED <<now, db, ops>>

\* const classDoc = await classCollection.findOne(...); with the class found
\* the query for the code is built, new Date() of line 895 included
ActiveCode_FindClass(p) ==
    /\ procs[p].pc = "findClass"
    /\ procs[p].op = "active"
    /\ IF ~OwnsClass(procs[p].classId, procs[p].teacherId)
       THEN Finish(p, "NotFound")
       ELSE procs' = [procs EXCEPT ![p].pc = "findCode", ![p].at = now]
    /\ UNCHANGED <<now, db, ops, resp>>

\* const activeCode = await classJoinCodeCollection.findOne(...)
ActiveCode_FindCode(p) ==
    /\ procs[p].pc = "findCode"
    /\ procs[p].op = "active"
    /\ LET ci == ActiveUnexpiredCode(joinCodes, procs[p].classId, procs[p].at)
       IN IF ci = 0
          THEN procs' = [procs EXCEPT
                           ![p].pc = "done", ![p].result = "NoActiveCode",
                           ![p].reply = NoActiveCode]
          ELSE procs' = [procs EXCEPT ![p].pc = "respond", ![p].ci = ci,
                                      ![p].doc = joinCodes[ci]]
    /\ UNCHANGED <<now, db, ops, resp>>

\* res.json({... remainingTime ...}): the body is built from the document
\* held, with the new Date() of line 913
ActiveCode_Respond(p) ==
    /\ procs[p].pc = "respond"
    /\ procs[p].op = "active"
    /\ procs' = [procs EXCEPT
                   ![p].pc = "done", ![p].result = "HasActiveCode",
                   ![p].reply = HasActiveCode(procs[p].doc, now)]
    /\ UNCHANGED <<now, db, ops, resp>>

ActiveCodeBegin == (\E p \in DOMAIN procs : ActiveCode_Begin(p)) /\ UNCHANGED accounts
ActiveCodeFindClass == (\E p \in DOMAIN procs : ActiveCode_FindClass(p)) /\ UNCHANGED accounts
ActiveCodeFindCode == (\E p \in DOMAIN procs : ActiveCode_FindCode(p)) /\ UNCHANGED accounts
ActiveCodeRespond == (\E p \in DOMAIN procs : ActiveCode_Respond(p)) /\ UNCHANGED accounts

ActiveCodeNext ==
    \/ Tick \/ IssueBegin \/ IssueFindClass \/ IssueDeactivate
    \/ IssueGenerate \/ IssueCreate \/ ValidateBegin \/ ValidateFindCode
    \/ ValidateExpire \/ ValidateFindEnrollment \/ ValidateFindRequest
    \/ AnswerSent \/ ActiveCodeBegin \/ ActiveCodeFindClass
    \/ ActiveCodeFindCode \/ ActiveCodeRespond

SpecActiveCode == Init /\ [][ActiveCodeNext]_vars

----------------------------------------------------------------------------
(* POST / (create class), one database operation per step.  In this       *)
(* specification classCollection is the sequence of the class documents in *)
(* insertion order, with the name and the subject the handler stores; the  *)
(* other collections stay empty.  The server runs one handler at a time or *)
(* interleaves two; a run receives at most MaxOps requests.                *)

ClassNames == {"", "Math", " Math ", "Physics"}
ClassSubjects == {"", "Algebra", " Algebra ", "Geometry"}

\* String.prototype.trim on the inputs of the model
Trim(s) ==
    IF s = " Math " THEN "Math" ELSE IF s = " Algebra " THEN "Algebra" ELSE s

\* Mutant: the query leaves out the teacher
ClassNamed_AnyTeacher(cls, teacherId, name) ==
    FindOneIdx({i \in 1..Len(cls) : cls[i].name = name /\ cls[i].isActive})

\* classCollection.findOne({teacherId, name: name.trim(), isActive: true})
ClassNamed(cls, teacherId, name) ==
    FindOneIdx({i \in 1..Len(cls) :
                  /\ cls[i].teacherId = teacherId
                  /\ cls[i].name = name
                  /\ cls[i].isActive})

\* The document classCollection.create stores; isActive defaults to true
NewClass(teacherId, name, subject) ==
    [teacherId |-> teacherId, name |-> Trim(name), subject |-> Trim(subject),
     isActive |-> TRUE, studentCount |-> 0]

\* The request arrives: const { name, subject } = req.body, teacherId from
\* the session; if (!name || !subject) is answered before the first await
Create_Begin(p) ==
    /\ procs[p].pc = "idle"
    /\ MayGrow
    /\ Grow
    /\ \E t \in Teachers, name \in ClassNames, subject \in ClassSubjects :
         procs' = [procs EXCEPT
                     ![p].op = "create", ![p].teacherId = t,
                     ![p].name = name, ![p].subject = subject,
                     ![p].pre = Snapshot,
                     ![p].pc = IF name = "" \/ subject = "" THEN "done"
                               ELSE "findClass",
                     ![p].result = IF name = "" \/ subject = ""
                                   THEN "FieldsRequired" ELSE "none"]
    /\ resp' = NoResponse
    /\ UNCHANGED <<now, db>>

\* const existingClass = await classCollection.findOne(...)
Create_FindClass(p) ==
    /\ procs[p].pc = "findClass"
    /\ procs[p].op = "create"
    /\ IF ClassNamed(classes, procs[p].teacherId, Trim(procs[p].name)) # 0
       THEN Finish(p, "NameTaken")
       ELSE Goto(p, "create")
    /\ UNCHANGED <<now, db, ops, resp>>

\* const newClass = await classCollection.create(...)
Create_Create(p) ==
    /\ procs[p].pc = "create"
    /\ procs[p].op = "create"
    /\ classes' = InsertDoc(classes, NewClass(procs[p].teacherId, procs[p].name,
                                              procs[p].subject))
    /\ Finish(p, "Created")
    /\ UNCHANGED <<now, joinCodes, joinRequests, nextRequestId, enrollments, ops, resp>>

CreateBegin == (\E p \in DOMAIN procs : Create_Begin(p)) /\ UNCHANGED accounts
CreateFindClass == (\E p \in DOMAIN procs : Create_FindClass(p)) /\ UNCHANGED accounts
CreateCreate == (\E p \in DOMAIN procs : Create_Create(p)) /\ UNCHANGED accounts

ClassesInit ==
    /\ KnownAccounts
    /\ now = 0
    /\ classes = <<>>
    /\ joinCodes = <<>>
    /\ joinRequests = <<>>
    /\ nextRequestId = 1
    /\ enrollments = <<>>
    /\ ops = 0
    /\ resp = NoResponse
    /\ procs \in SlotSetups

ClassesNext == CreateBegin \/ CreateFindClass \/ CreateCreate \/ AnswerSent

SpecClasses == ClassesInit /\ [][ClassesNext]_vars

----------------------------------------------------------------------------
(* routes/authRoutes.js: POST /signup and POST /forgot-password, one       *)
(* awaited operation per step.  In this specification the account          *)
(* collections start empty and the other collections stay empty.  The      *)
(* request body is taken as validateRegistration lets it through: a        *)
(* teacher gives an email, a student an enrollment number and possibly an  *)
(* email.  The server runs one handler at a time or interleaves two; a run *)
(* receives at most MaxOps requests, clock advances counted.               *)

PASSWORD_RESET_TOKEN_EXPIRY == 60 * 60 * 1000
VERIFICATION_TOKEN_EXPIRY == 24 * 60 * 60 * 1000

TokenTickSteps == {1, PASSWORD_RESET_TOKEN_EXPIRY, VERIFICATION_TOKEN_EXPIRY}

\* Time passes, between requests and between the awaits of a request
TokenTick ==
    /\ MayGrow
    /\ Grow
    /\ \E d \in TokenTickSteps : now' = now + d
    /\ UNCHANGED <<db, resp, procs, accounts>>

UserTypes == {"teacher", "student"}
EmailInputs == {"", "a@x.io", " A@X.io", "b@x.io"}
EnrollmentInputs == {"e1", "E1"}

\* email.toLowerCase().trim() on the inputs of the model
LowerTrim(s) == IF s = " A@X.io" THEN "a@x.io" ELSE s

\* collection.findOne({email})
AccountByEmail(coll, email) ==
    FindOneIdx({i \in 1..Len(coll) : coll[i].email = email})

\* studentCollection.findOne({enrollment})
StudentByEnrollment(coll, enrollment) ==
    FindOneIdx({i \in 1..Len(coll) : coll[i].enrollment = enrollment})

\* studentData.email is set only if (email && email.trim())
StoredEmail(email) == IF email = "" THEN "none" ELSE LowerTrim(email)

\* The request arrives: const { userType, email, enrollment } = req.body
Signup_Begin(p) ==
    /\ procs[p].pc = "idle"
    /\ MayGrow
    /\ Grow
    /\ \E u \in UserTypes, email \in EmailInputs, enrollment \in EnrollmentInputs :
         /\ u = "teacher" => email # ""
         /\ procs' = [procs EXCEPT
                        ![p].op = "signup", ![p].userType = u,
                        ![p].email = email, ![p].enrollment = enrollment,
                        ![p].pc = "findExisting"]
    /\ resp' = NoResponse
    /\ UNCHANGED <<now, db, accounts>>

\* const existingTeacher = await teacherCollection.findOne({email: email}), or
\* const existingStudent = await studentCollection.findOne({enrollment:
\* upperCaseEnrollment}); with one found the form is rendered again
Signup_FindExisting(p) ==
    /\ procs[p].pc = "findExisting"
    /\ procs[p].op = "signup"
    /\ IF procs[p].userType = "teacher"
       THEN IF AccountByEmail(teacherCollection, procs[p].email) # 0
            THEN Finish(p, "EmailTaken")
            ELSE Goto(p, "insert")
       ELSE IF StudentByEnrollment(studentCollection,
                                   ToUpperCase(procs[p].enrollment)) # 0
            THEN Finish(p, "EnrollmentTaken")
            ELSE Goto(p, "insert")
    /\ UNCHANGED <<now, db, ops, resp, accounts>>

\* await teacherCollection.insertMany([teacherData]), or
\* await studentCollection.insertMany([studentData]); stored: the database
\* takes the document, otherwise insertMany throws and the catch of line 136
\* renders the general error
Signup_Insert(p) ==
    /\ procs[p].pc = "insert"
    /\ procs[p].op = "signup"
    /\ \E stored \in BOOLEAN :
         IF ~stored
         THEN /\ Finish(p, "SignupFailed")
              /\ UNCHANGED accounts
         ELSE /\ Goto(p, "findNew")
              /\ IF procs[p].userType = "teacher"
                 THEN /\ teacherCollection' =
                           InsertDoc(teacherCollection,
                                     Account(Len(teacherCollection) + 1,
                                             LowerTrim(procs[p].email), ""))
                      /\ UNCHANGED studentCollection
                 ELSE /\ studentCollection' =
                           InsertDoc(studentCollection,
                                     Account(Len(studentCollection) + 1,
                                             StoredEmail(procs[p].email),
                                             ToUpperCase(procs[p].enrollment)))
                      /\ UNCHANGED teacherCollection
    /\ UNCHANGED <<now, db, ops, resp>>

\* const newTeacher = await teacherCollection.findOne({email:
\* email.toLowerCase().trim()}), or const newStudent = await
\* studentCollection.findOne({enrollment: upperCaseEnrollment}): the first
\* account that matches; the session is given its _id.  Without one,
\* newTeacher._id throws and the catch of line 136 renders the general error.
Signup_FindNew(p) ==
    /\ procs[p].pc = "findNew"
    /\ procs[p].op = "signup"
    /\ LET i == IF procs[p].userType = "teacher"
                THEN AccountByEmail(teacherCollection, LowerTrim(procs[p].email))
                ELSE StudentByEnrollment(studentCollection,
                                         ToUpperCase(procs[p].enrollment))
       IN IF i = 0
          THEN Finish(p, "SignupFailed")
          ELSE procs' = [procs EXCEPT
                           ![p].pc = "session", ![p].ui = i,
                           ![p].coll = IF procs[p].userType = "teacher"
                                       THEN "teacher" ELSE "student"]
    /\ UNCHANGED <<now, db, ops, resp, accounts>>

\* req.session.save((err) => ...): the callback redirects, or renders
\* "Error during registration." when the session store fails; the account
\* stays in the collection either way
Signup_SessionSave(p) ==
    /\ procs[p].pc = "session"
    /\ procs[p].op = "signup"
    /\ \E saved \in BOOLEAN :
         Finish(p, IF saved THEN "Registered" ELSE "SessionError")
    /\ UNCHANGED <<now, db, ops, resp, accounts>>

\* user.save() after lines 238-239: the modified paths are written to the
\* document of that _id.  token is crypto.randomBytes(32).toString('hex'), at
\* the Date.now() of line 239.
SetResetToken(coll, i, token, at) ==
    [coll EXCEPT ![i].resetPasswordToken = token,
                 ![i].resetPasswordTokenExpires = at + PASSWORD_RESET_TOKEN_EXPIRY]

\* The request arrives: const { email } = req.body; if (!email) is answered
\* before the first await
Forgot_Begin(p) ==
    /\ procs[p].pc = "idle"
    /\ MayGrow
    /\ Grow
    /\ \E email \in EmailInputs :
         procs' = [procs EXCEPT
                     ![p].op = "forgot", ![p].email = email, ![p].seq = ops',
                     ![p].pc = IF email = "" THEN "done" ELSE "findStudent",
                     ![p].result = IF email = "" THEN MsgEmailRequired
                                   ELSE "none"]
    /\ resp' = NoResponse
    /\ UNCHANGED <<now, db, accounts>>

\* The handler holds the account it found, draws the token (a value never
\* drawn before: the number of the request) and reads the clock for the
\* expiry (lines 238-239), before the save is sent
ForgotHeld(p, coll, i) ==
    procs' = [procs EXCEPT ![p].coll = coll, ![p].ui = i,
                           ![p].token = procs[p].seq, ![p].at = now,
                           ![p].pc = "save"]

\* let user = await studentCollection.findOne({email: email.toLowerCase().trim()})
Forgot_FindStudent(p) ==
    /\ procs[p].pc = "findStudent"
    /\ procs[p].op = "forgot"
    /\ LET si == AccountByEmail(studentCollection, LowerTrim(procs[p].email))
       IN IF si # 0
          THEN ForgotHeld(p, "student", si)
          ELSE Goto(p, "findTeacher")
    /\ UNCHANGED <<now, db, ops, resp, accounts>>

\* user = await teacherCollection.findOne({email: email.toLowerCase().trim()})
Forgot_FindTeacher(p) ==
    /\ procs[p].pc = "findTeacher"
    /\ procs[p].op = "forgot"
    /\ LET ti == AccountByEmail(teacherCollection, LowerTrim(procs[p].email))
       IN IF ti # 0
          THEN ForgotHeld(p, "teacher", ti)
          ELSE Finish(p, MsgResetSent)
    /\ UNCHANGED <<now, db, ops, resp, accounts>>

\* await user.save()
Forgot_Save(p) ==
    /\ procs[p].pc = "save"
    /\ procs[p].op = "forgot"
    /\ IF procs[p].coll = "student"
       THEN /\ studentCollection' =
                 SetResetToken(studentCollection, procs[p].ui, procs[p].token,
                               procs[p].at)
            /\ UNCHANGED teacherCollection
       ELSE /\ teacherCollection' =
                 SetResetToken(teacherCollection, procs[p].ui, procs[p].token,
                               procs[p].at)
            /\ UNCHANGED studentCollection
    /\ Goto(p, "render")
    /\ UNCHANGED <<now, db, ops, resp>>

\* const emailHtml = await renderEmailTemplate('resetPasswordEmail', ...)
Forgot_Render(p) ==
    /\ procs[p].pc = "render"
    /\ procs[p].op = "forgot"
    /\ Goto(p, "send")
    /\ UNCHANGED <<now, db, ops, resp, accounts>>

\* const emailResult = await sendEmail(...); mailed: emailResult.success of
\* the external mail service
Forgot_Send(p) ==
    /\ procs[p].pc = "send"
    /\ procs[p].op = "forgot"
    /\ \E mailed \in BOOLEAN :
         Finish(p, IF mailed THEN MsgResetSentInbox ELSE MsgResetMailFailed)
    /\ UNCHANGED <<now, db, ops, resp, accounts>>

SignupBegin == \E p \in DOMAIN procs : Signup_Begin(p)
SignupFindExisting == \E p \in DOMAIN procs : Signup_FindExisting(p)
SignupInsert == \E p \in DOMAIN procs : Signup_Insert(p)
SignupFindNew == \E p \in DOMAIN procs : Signup_FindNew(p)
SignupSessionSave == \E p \in DOMAIN procs : Signup_SessionSave(p)
ForgotBegin == \E p \in DOMAIN procs : Forgot_Begin(p)
ForgotFindStudent == \E p \in DOMAIN procs : Forgot_FindStudent(p)
ForgotFindTeacher == \E p \in DOMAIN procs : Forgot_FindTeacher(p)
ForgotSave == \E p \in DOMAIN procs : Forgot_Save(p)
ForgotRender == \E p \in DOMAIN procs : Forgot_Render(p)
ForgotSend == \E p \in DOMAIN procs : Forgot_Send(p)

AccountsInit ==
    /\ now = 0
    /\ classes = <<>>
    /\ joinCodes = <<>>
    /\ joinRequests = <<>>
    /\ nextRequestId = 1
    /\ enrollments = <<>>
    /\ ops = 0
    /\ resp = NoResponse
    /\ procs \in SlotSetups
    /\ studentCollection = <<>>
    /\ teacherCollection = <<>>

AccountsNext ==
    \/ TokenTick \/ SignupBegin \/ SignupFindExisting \/ SignupInsert
    \/ SignupFindNew \/ SignupSessionSave \/ ForgotBegin \/ ForgotFindStudent
    \/ ForgotFindTeacher \/ ForgotSave \/ ForgotRender \/ ForgotSend
    \/ AnswerSent

SpecAccounts == AccountsInit /\ [][AccountsNext]_vars

----------------------------------------------------------------------------
(* The token routes: POST /forgot-password issues a reset token,           *)
(* POST /reset-password/:token and GET /verify-email/:token consume        *)
(* tokens.  Verification tokens are issued outside these routes, so the    *)
(* accounts start with or without one.                                     *)

ResetTokenInputs == 1..MaxOps
VerificationTokenInputs == {11, 12, 13}
\* req.body of POST /reset-password/:token: newPassword, confirmNewPassword
ResetBodies == {<<"short", "short">>, <<"secret1", "secret1">>,
                <<"secret1", "secret2">>}
\* newPassword.length on the inputs of the model
PasswordLength(p) == IF p = "short" THEN 5 ELSE 7

\* collection.findOne({resetPasswordToken: token,
\*                     resetPasswordTokenExpires: {$gt: Date.now()}}); at is the
\* Date.now() the query was built with
AccountByResetToken(coll, token, at) ==
    FindOneIdx({i \in 1..Len(coll) : /\ coll[i].resetPasswordToken = token
                                     /\ coll[i].resetPasswordTokenExpires > at})

\* collection.findOne({verificationToken: token,
\*                     verificationTokenExpires: {$gt: Date.now()}})
AccountByVerificationToken(coll, token, at) ==
    FindOneIdx({i \in 1..Len(coll) : /\ coll[i].verificationToken = token
                                     /\ coll[i].verificationTokenExpires > at})

\* user.save() after user.password = newPassword and the token fields set to
\* undefined: the modified paths are written to the document of that _id
SetPassword(coll, i, newPassword) ==
    [coll EXCEPT ![i].password = newPassword,
                 ![i].resetPasswordToken = 0,
                 ![i].resetPasswordTokenExpires = 0]

\* The password validation of lines 335-347, made on the request body once a
\* user is found: the branch taken
ResetOutcome(newPassword, confirmNewPassword) ==
    IF newPassword # confirmNewPassword THEN "Mismatch"
    ELSE IF PasswordLength(newPassword) < 6 THEN "TooShort"
    ELSE "Reset"

\* The handler holds the account it found and goes on to the save, or has
\* its answer
ResetHeld(p, coll, i) ==
    LET outcome == ResetOutcome(procs[p].password, procs[p].confirm)
    IN procs' = [procs EXCEPT
                   ![p].coll = coll, ![p].ui = i,
                   ![p].pc = IF outcome = "Reset" THEN "save" ELSE "done",
                   ![p].result = IF outcome = "Reset" THEN "none" ELSE outcome]

\* The request arrives: req.params.token, req.body; the query on the
\* students is built, Date.now() of line 318 included
Reset_Begin(p) ==
    /\ procs[p].pc = "idle"
    /\ \E token \in ResetTokenInputs, body \in ResetBodies :
         procs' = [procs EXCEPT ![p].op = "reset", ![p].token = token,
                                ![p].password = body[1],
                                ![p].confirm = body[2],
                                ![p].at = now, ![p].pc = "findStudent"]
    /\ MayGrow
    /\ Grow
    /\ resp' = NoResponse
    /\ UNCHANGED <<now, db, accounts>>

\* let user = await studentCollection.findOne(...); without one the query on
\* the teachers is built, Date.now() of line 324 included
Reset_FindStudent(p) ==
    /\ procs[p].pc = "findStudent"
    /\ procs[p].op = "reset"
    /\ LET si == AccountByResetToken(studentCollection, procs[p].token,
                                     procs[p].at)
       IN IF si # 0
          THEN ResetHeld(p, "student", si)
          ELSE procs' = [procs EXCEPT ![p].pc = "findTeacher", ![p].at = now]
    /\ UNCHANGED <<now, db, ops, resp, accounts>>

\* user = await teacherCollection.findOne(...)
Reset_FindTeacher(p) ==
    /\ procs[p].pc = "findTeacher"
    /\ procs[p].op = "reset"
    /\ LET ti == AccountByResetToken(teacherCollection, procs[p].token,
                                     procs[p].at)
       IN IF ti # 0
          THEN ResetHeld(p, "teacher", ti)
          ELSE Finish(p, "InvalidToken")
    /\ UNCHANGED <<now, db, ops, resp, accounts>>

\* await user.save()
Reset_Save(p) ==
    /\ procs[p].pc = "save"
    /\ procs[p].op = "reset"
    /\ IF procs[p].coll = "student"
       THEN /\ studentCollection' =
                 SetPassword(studentCollection, procs[p].ui, procs[p].password)
            /\ UNCHANGED teacherCollection
       ELSE /\ teacherCollection' =
                 SetPassword(teacherCollection, procs[p].ui, procs[p].password)
            /\ UNCHANGED studentCollection
    /\ Finish(p, "Reset")
    /\ UNCHANGED <<now, db, ops, resp>>

\* The branch GET /verify-email/:token takes for the account it found
VerifyOutcome(user) ==
    IF user.pendingEmail # "none" THEN "EmailUpdated"
    ELSE IF ~user.isVerified THEN "Verified"
    ELSE "AlreadyVerified"

\* user.save() of the two successful branches: the modified paths are
\* written to the document of that _id.  With a pending email held, the
\* email becomes that address and pendingEmail is unset; in both branches
\* isVerified is set and the token fields are unset.
MarkVerified(coll, i, user) ==
    [coll EXCEPT ![i].isVerified = TRUE,
                 ![i].email = IF user.pendingEmail # "none"
                              THEN user.pendingEmail ELSE @,
                 ![i].pendingEmail = IF user.pendingEmail # "none"
                                     THEN "none" ELSE @,
                 ![i].verificationToken = 0,
                 ![i].verificationTokenExpires = 0]

\* The handler holds the account it found and goes on to the save, or has
\* its answer
VerifyHeld(p, coll, i, user) ==
    LET outcome == VerifyOutcome(user)
    IN procs' = [procs EXCEPT
                   ![p].coll = coll, ![p].ui = i, ![p].doc = user,
                   ![p].pc = IF outcome = "AlreadyVerified" THEN "done"
                             ELSE "save",
                   ![p].result = outcome]

\* The request arrives: req.params.token; the query on the students is
\* built, Date.now() of line 384 included
Verify_Begin(p) ==
    /\ procs[p].pc = "idle"
    /\ \E token \in VerificationTokenInputs :
         procs' = [procs EXCEPT ![p].op = "verify", ![p].token = token,
                                ![p].at = now, ![p].pc = "findStudent"]
    /\ MayGrow
    /\ Grow
    /\ resp' = NoResponse
    /\ UNCHANGED <<now, db, accounts>>

\* let user = await studentCollection.findOne(...); without one the query on
\* the teachers is built, Date.now() of line 391 included
Verify_FindStudent(p) ==
    /\ procs[p].pc = "findStudent"
    /\ procs[p].op = "verify"
    /\ LET si == AccountByVerificationToken(studentCollection, procs[p].token,
                                            procs[p].at)
       IN IF si # 0
          THEN VerifyHeld(p, "student", si, studentCollection[si])
          ELSE procs' = [procs EXCEPT ![p].pc = "findTeacher", ![p].at = now]
    /\ UNCHANGED <<now, db, ops, resp, accounts>>

\* user = await teacherCollection.findOne(...)
Verify_FindTeacher(p) ==
    /\ procs[p].pc = "findTeacher"
    /\ procs[p].op = "verify"
    /\ LET ti == AccountByVerificationToken(teacherCollection, procs[p].token,
                                            procs[p].at)
       IN IF ti # 0
          THEN VerifyHeld(p, "teacher", ti, teacherCollection[ti])
          ELSE Finish(p, "InvalidLink")
    /\ UNCHANGED <<now, db, ops, resp, accounts>>

\* await user.save()
Verify_Save(p) ==
    /\ procs[p].pc = "save"
    /\ procs[p].op = "verify"
    /\ IF procs[p].coll = "student"
       THEN /\ studentCollection' =
                 MarkVerified(studentCollection, procs[p].ui, procs[p].doc)
            /\ UNCHANGED teacherCollection
       ELSE /\ teacherCollection' =
                 MarkVerified(teacherCollection, procs[p].ui, procs[p].doc)
            /\ UNCHANGED studentCollection
    /\ Goto(p, "done")
    /\ UNCHANGED <<now, db, ops, resp>>

\* An account as the routes outside this file leave it
TokenAccount(id, email, enrollment, verified, pending, token, expires) ==
    [Account(id, email, enrollment) EXCEPT
        !.isVerified = verified, !.pendingEmail = pending,
        !.verificationToken = token, !.verificationTokenExpires = expires]

TokenStudents ==
    { TokenAccount("s1", "a@x.io", "E1", FALSE, "none", 11, VERIFICATION_TOKEN_EXPIRY),
      TokenAccount("s1", "a@x.io", "E1", TRUE, "c@x.io", 11, VERIFICATION_TOKEN_EXPIRY),
      TokenAccount("s1", "a@x.io", "E1", FALSE, "c@x.io", 11, VERIFICATION_TOKEN_EXPIRY),
      TokenAccount("s1", "a@x.io", "E1", TRUE, "none", 11, VERIFICATION_TOKEN_EXPIRY) }

TokenTeachers ==
    { TokenAccount("t1", "b@x.io", "", FALSE, "none", 12, 1),
      TokenAccount("t1", "b@x.io", "", TRUE, "none", 0, 0) }

\* Two requests can be in flight
TokensInit ==
    /\ now = 0
    /\ classes = <<>>
    /\ joinCodes = <<>>
    /\ joinRequests = <<>>
    /\ nextRequestId = 1
    /\ enrollments = <<>>
    /\ ops = 0
    /\ resp = NoResponse
    /\ procs = [p \in Procs |-> IdleProc]
    /\ \E s \in TokenStudents : studentCollection = <<s>>
    /\ \E t \in TokenTeachers : teacherCollection = <<t>>

ResetBegin == \E p \in DOMAIN procs : Reset_Begin(p)
ResetFindStudent == \E p \in DOMAIN procs : Reset_FindStudent(p)
ResetFindTeacher == \E p \in DOMAIN procs : Reset_FindTeacher(p)
ResetSave == \E p \in DOMAIN procs : Reset_Save(p)
VerifyBegin == \E p \in DOMAIN procs : Verify_Begin(p)
VerifyFindStudent == \E p \in DOMAIN procs : Verify_FindStudent(p)
VerifyFindTeacher == \E p \in DOMAIN procs : Verify_FindTeacher(p)
VerifySave == \E p \in DOMAIN procs : Verify_Save(p)

TokensNext ==
    \/ TokenTick \/ ForgotBegin \/ ForgotFindStudent \/ ForgotFindTeacher
    \/ ForgotSave \/ ForgotRender \/ ForgotSend \/ ResetBegin
    \/ ResetFindStudent \/ ResetFindTeacher \/ ResetSave \/ VerifyBegin
    \/ VerifyFindStudent \/ VerifyFindTeacher \/ VerifySave \/ AnswerSent

SpecTokens == TokensInit /\ [][TokensNext]_vars

----------------------------------------------------------------------------
(* Vocabulary of the properties *)

ActiveCodesOf(codes, classId) ==
    {i \in 1..Len(codes) : codes[i].classId = classId /\ codes[i].isActive}

RowsOf(rows, classId, studentId) ==
    {i \in 1..Len(rows) : rows[i].classId = classId /\ rows[i].studentId = studentId}

PendingOf(reqs, classId, studentId) ==
    {i \in 1..Len(reqs) : /\ reqs[i].classId = classId
                          /\ reqs[i].studentId = studentId
                          /\ reqs[i].status = "pending"}

RequestsWithId(reqs, id) == {i \in 1..Len(reqs) : reqs[i].id = id}

\* All requests of a pair, whatever their status
RequestsOf(reqs, classId, studentId) ==
    {i \in 1..Len(reqs) : reqs[i].classId = classId /\ reqs[i].studentId = studentId}

\* The request documents of every other pair
RequestsBeside(reqs, classId, studentId) ==
    {reqs[i] : i \in (1..Len(reqs)) \ RequestsOf(reqs, classId, studentId)}

\* Every call in flight has sent its response
AllDone == \A p \in Procs : procs[p].pc = "done"

\* The call in slot p, of this route, sends its answer in this step.  In such
\* a step procs[p].pre is the store the call found when it arrived, the store
\* as it stands is the store the call leaves, and resp' is its answer.
Sends(p, op) ==
    /\ procs[p].pc = "done"
    /\ procs[p].op = op
    /\ procs'[p].pc = "idle"

\* The call in slot p leaves the store as it found it
Kept(p) == Snapshot = procs[p].pre

\* This step is a step of the call in slot p, of this route
Acts(p, op) == procs[p].op = op /\ procs'[p] # procs[p]

\* The code document a call with this input resolves to in these codes (0: none)
CodeIn(codes, code) == FindActiveCode(codes, ToUpperCase(code))

\* The code documents, active or not, that carry the value of this input
CodesNamedIn(codes, code) ==
    {i \in 1..Len(codes) : codes[i].joinCode = ToUpperCase(code)}

\* The student has an active enrollment in the class
EnrolledIn(rows, classId, studentId) ==
    \E e \in RowsOf(rows, classId, studentId) : rows[e].isActive

\* The call in slot p is made by a student: the account of its session is
\* on file
ByStudent(p) == StudentById(studentCollection, procs[p].studentId) # 0

\* The code is none, or was past its expiry or at its cap, at this reading of
\* the clock
UnusableAt(codes, ci, at) ==
    \/ ci = 0
    \/ at > codes[ci].expiresAt
    \/ codes[ci].usageCount >= codes[ci].maxUsage

\* The server of this run takes one request at a time
OneAtATime == DOMAIN procs = {1}

\* The teacher has an active class with this name (trimmed) in these classes
HasClassNamed(cls, teacherId, name) ==
    \E i \in 1..Len(cls) : /\ cls[i].isActive
                           /\ cls[i].teacherId = teacherId
                           /\ cls[i].name = Trim(name)

\* This step is the roster route enrolling a student
RosterAdds == resp'.op = "add" /\ procs' = procs

----------------------------------------------------------------------------
\* C1: with handlers run one at a time, every class has at most one join code
\* with isActive = true in every reachable state, and a successful
\* IssueJoinCode leaves every code the class had before inactive and the new
\* code as the class's only active one.
C1_AtMostOneActive ==
    \A c \in ClassIds : Cardinality(ActiveCodesOf(joinCodes, c)) <= 1

C1_IssueDeactivates ==
    \A p \in DOMAIN procs :
        (Sends(p, "issue") /\ resp'.result = "Issued") =>
            LET before == procs[p].pre.joinCodes
                c == procs[p].classId
            IN /\ Len(joinCodes) = Len(before) + 1
               /\ \A i \in 1..Len(before) :
                    before[i].classId = c => ~joinCodes[i].isActive
               /\ ActiveCodesOf(joinCodes, c) = {Len(joinCodes)}

C1_OneActiveCodePerClass == []C1_AtMostOneActive /\ [][C1_IssueDeactivates]_vars

\* C1 witness: a class got a second code and its first one is inactive
C1_Witness ==
    /\ resp.result = "Issued"
    /\ \E i, j \in 1..Len(joinCodes) :
         /\ i < j
         /\ joinCodes[i].classId = joinCodes[j].classId
         /\ ~joinCodes[i].isActive
         /\ joinCodes[j].isActive

----------------------------------------------------------------------------
\* C2: in every reachable state, also when two SubmitJoinRequest calls of one
\* student for one class interleave between their database operations, a
\* (class, student) pair has at most one pending join request.
C2_OnePendingPerPair ==
    \A c \in ClassIds, s \in Students :
        Cardinality(PendingOf(joinRequests, c, s)) <= 1

\* C2 witness: two calls of one student both found no request of the pair and
\* both sent their create; the store took one and refused the other, which
\* answered with the duplicate error, and the pair has one pending request
C2_Witness ==
    /\ AllDone
    /\ procs[1].studentId = procs[2].studentId
    /\ procs[1].classId = procs[2].classId
    /\ {procs[1].result, procs[2].result} = {"RequestCreated", "DuplicateRequest"}
    /\ \A p \in Procs :
         PendingOf(procs[p].pre.joinRequests, procs[p].classId,
                   procs[p].studentId) = {}
    /\ Cardinality(PendingOf(joinRequests, procs[1].classId,
                             procs[1].studentId)) = 1

----------------------------------------------------------------------------
\* C3: with handlers run one at a time, approve by the owning teacher on a
\* pending request leaves the request approved, the student's enrollment in
\* the class active, and the class's studentCount equal to the number of
\* active enrollments of the class.  (An approve that finds the student
\* enrolled already, by the roster route, answers AlreadyEnrolled and leaves
\* the classes and the enrollments as the roster route left them.)
C3_ApproveStep ==
    \A p \in DOMAIN procs :
        (Sends(p, "resolve") /\ procs[p].action = "approve") =>
            LET before == procs[p].pre.joinRequests
                c == procs[p].classId
                id == procs[p].rid
            IN \A k \in 1..Len(before) :
                 (/\ before[k].id = id
                  /\ before[k].classId = c
                  /\ before[k].status = "pending"
                  /\ procs[p].teacherId = ClassOwner(c)
                  /\ OwnsClass(c, procs[p].teacherId)) =>
                    /\ PendingRequestById(before, id, c) = k
                    /\ \A m \in RequestsWithId(joinRequests, id) :
                          joinRequests[m].status = "approved"
                    /\ RequestsWithId(joinRequests, id) # {}
                    /\ EnrolledIn(enrollments, c, before[k].studentId)
                    /\ IF EnrolledIn(procs[p].pre.enrollments, c,
                                     before[k].studentId)
                       THEN /\ resp'.result = "AlreadyEnrolled"
                            /\ classes = procs[p].pre.classes
                            /\ enrollments = procs[p].pre.enrollments
                       ELSE /\ resp' = Response("resolve", 200, "Approved")
                            /\ classes[c].studentCount =
                                  CountActiveStudents(enrollments, c)

----------------------------------------------------------------------------
\* C4: with handlers run one at a time, there is at most one enrollment row
\* per (class, student) pair; a SubmitJoinRequest that rejoins, and an
\* approve that finds an inactive row of its student, set the existing row
\* active without adding a row.
C4_OneRowPerPair ==
    \A c \in ClassIds, s \in Students : Cardinality(RowsOf(enrollments, c, s)) <= 1

C4_RejoinStep ==
    \A p \in DOMAIN procs :
        (Sends(p, "submit") /\ resp'.result = "Rejoined") =>
            LET before == procs[p].pre
                c == before.joinCodes[CodeIn(before.joinCodes, procs[p].code)].classId
            IN /\ Len(enrollments) = Len(before.enrollments)
               /\ \A e \in RowsOf(enrollments, c, procs[p].studentId) :
                     ~before.enrollments[e].isActive /\ enrollments[e].isActive

C4_ApproveStep ==
    \A p \in DOMAIN procs :
        (Sends(p, "resolve") /\ resp'.result = "Approved") =>
            LET before == procs[p].pre
                c == procs[p].classId
                k == PendingRequestById(before.joinRequests, procs[p].rid, c)
                s == before.joinRequests[k].studentId
            IN /\ k # 0
               /\ \A e \in RowsOf(before.enrollments, c, s) :
                     /\ Len(enrollments) = Len(before.enrollments)
                     /\ ~before.enrollments[e].isActive
                     /\ enrollments[e].isActive
                     /\ RowsOf(enrollments, c, s) = {e}

C4_NoDuplicateEnrollment ==
    []C4_OneRowPerPair /\ [][C4_RejoinStep /\ C4_ApproveStep]_vars

\* C4 witness: an approve found the inactive row of a removed student and has
\* set it active; the enrollments are as many as before
C4_Witness ==
    \E p \in DOMAIN procs :
        /\ procs[p].pc = "done"
        /\ procs[p].op = "resolve"
        /\ procs[p].result = "Approved"
        /\ Len(enrollments) = Len(procs[p].pre.enrollments)
        /\ \E e \in RowsOf(enrollments, procs[p].classId, procs[p].studentId) :
             ~procs[p].pre.enrollments[e].isActive /\ enrollments[e].isActive

----------------------------------------------------------------------------
\* C5: with handlers run one at a time, no join code's usage counter passes
\* its cap, and a SubmitJoinRequest whose code has reached the cap fails,
\* for every student, with the handler's error for an unusable code
\* (400, "Invalid, expired, or overused join code") and changes no document.
C5_UsageWithinCap ==
    \A i \in 1..Len(joinCodes) : joinCodes[i].usageCount <= joinCodes[i].maxUsage

C5_SubmitAtCap ==
    \A p \in DOMAIN procs :
        (Sends(p, "submit") /\ ByStudent(p)) =>
            LET before == procs[p].pre.joinCodes
                ci == CodeIn(before, procs[p].code)
            IN (/\ ci # 0
                /\ before[ci].usageCount >= before[ci].maxUsage) =>
                  /\ resp' = Response("submit", 400, "CodeUnusable")
                  /\ Kept(p)

C5_CapStopsSubmissions == []C5_UsageWithinCap /\ [][C5_SubmitAtCap]_vars

\* C5 witness: a submission was turned away by an active, unexpired code at its cap
C5_Witness ==
    /\ resp = Response("submit", 400, "CodeUnusable")
    /\ \E i \in 1..Len(joinCodes) :
         /\ joinCodes[i].isActive
         /\ ~isExpired(joinCodes[i])
         /\ joinCodes[i].usageCount = MaxUsage
    /\ Len(joinRequests) >= 2

----------------------------------------------------------------------------
\* C6 as claimed: every ValidateJoinCode call made on a code after that code's
\* expiry timestamp fails with Expired, the first call and every later one.
\* Stated for a call that arrives after the expiry of a code that no newer
\* code of its class has replaced.
C6_EveryCallExpired ==
    [][\A p \in DOMAIN procs :
         Sends(p, "validate") =>
            LET before == procs[p].pre.joinCodes
                named == CodesNamedIn(before, procs[p].code)
            IN (/\ named # {}
                /\ \A i \in named :
                     /\ procs[p].began > before[i].expiresAt
                     /\ \A j \in 1..Len(before) :
                          j > i => before[j].classId # before[i].classId) =>
                  resp'.result = "Expired"]_vars

\* C6 amended: a ValidateJoinCode call that finds an active code, and finds
\* it past its expiry when it checks it, fails with Expired whatever the
\* usage count and marks that code inactive; a call that finds no active code
\* with the value (as every later call does until a new code carries it)
\* fails with 404 invalid code.
C6_ExpiredStep ==
    \A p \in DOMAIN procs :
        Sends(p, "validate") =>
            LET before == procs[p].pre.joinCodes
                ci == CodeIn(before, procs[p].code)
            IN /\ (ci # 0 /\ procs[p].at > before[ci].expiresAt) =>
                    /\ resp' = Response("validate", 400, "Expired")
                    /\ ~joinCodes[ci].isActive
                    /\ CodeIn(joinCodes, procs[p].code) = 0
               /\ ci = 0 => resp' = Response("validate", 404, "InvalidCode")

C6_FirstCallExpired == [][C6_ExpiredStep]_vars

\* C6 witness: an expired code at its usage cap was reported Expired
C6_Witness ==
    /\ resp = Response("validate", 400, "Expired")
    /\ \E i \in 1..Len(joinCodes) :
         /\ ~joinCodes[i].isActive
         /\ now > joinCodes[i].expiresAt
         /\ joinCodes[i].usageCount >= joinCodes[i].maxUsage

----------------------------------------------------------------------------
\* C7 as claimed: every ValidateJoinCode call on an unexpired join code whose
\* usage counter has reached its cap fails with UsageExceeded, for every
\* student.  Stated for a value that only such codes carry.
C7_EveryCallAtCap ==
    [][\A p \in DOMAIN procs :
         Sends(p, "validate") =>
            LET before == procs[p].pre.joinCodes
                named == CodesNamedIn(before, procs[p].code)
            IN (/\ named # {}
                /\ \A i \in named :
                     /\ now <= before[i].expiresAt
                     /\ before[i].usageCount >= before[i].maxUsage) =>
                  resp'.result = "UsageExceeded"]_vars

\* C7 amended: every ValidateJoinCode call that finds an active code, not
\* past its expiry when the call checks it, whose usage counter has reached
\* its cap fails with UsageExceeded (400), whatever the student's enrollment
\* or pending request; a call on a code that is no longer active (a newer
\* code of the class has replaced it) fails with 404 invalid code, also when
\* the code is unexpired and at its cap.
C7_CapStep ==
    \A p \in DOMAIN procs :
        Sends(p, "validate") =>
            LET before == procs[p].pre.joinCodes
                ci == CodeIn(before, procs[p].code)
            IN /\ (/\ ci # 0
                   /\ procs[p].at <= before[ci].expiresAt
                   /\ before[ci].usageCount >= before[ci].maxUsage) =>
                     resp' = Response("validate", 400, "UsageExceeded")
               /\ ci = 0 => resp' = Response("validate", 404, "InvalidCode")

C7_ValidateAtCap == [][C7_CapStep]_vars

\* C7 witness: UsageExceeded was reported while a student of that class has
\* a pending request
C7_Witness ==
    /\ resp = Response("validate", 400, "UsageExceeded")
    /\ \E i \in 1..Len(joinCodes), s \in Students :
         /\ joinCodes[i].isActive
         /\ joinCodes[i].usageCount = MaxUsage
         /\ PendingOf(joinRequests, joinCodes[i].classId, s) # {}

----------------------------------------------------------------------------
\* C8 as claimed: whenever a student with a pending request for a class
\* submits a code of that class again, the response is RequestPending.
C8_AlwaysRequestPending ==
    [][\A p \in DOMAIN procs :
         (Sends(p, "submit") /\ ByStudent(p)) =>
            LET before == procs[p].pre
                ci == CodeIn(before.joinCodes, procs[p].code)
            IN (/\ ci # 0
                /\ PendingOf(before.joinRequests, before.joinCodes[ci].classId,
                             procs[p].studentId) # {}) =>
                  resp'.result = "RequestPending"]_vars

\* C8 amended: when a student with a pending request and no enrollment row
\* for a class submits a code of that class that is usable when the handler
\* checks it (active, unexpired, below its cap), the response is
\* RequestPending; with a code that is not usable then, the response is the
\* handler's invalid-code error; in both cases no request is created and no
\* document changes.  A student whom the roster route gave an enrollment row
\* is answered AlreadyEnrolled (row active, nothing changes) or is taken back
\* into the class (row inactive), and no request is created either.
C8_ResubmitStep ==
    \A p \in DOMAIN procs :
        (Sends(p, "submit") /\ ByStudent(p)) =>
            LET before == procs[p].pre
                s == procs[p].studentId
                ci == CodeIn(before.joinCodes, procs[p].code)
                c == before.joinCodes[ci].classId
            IN (ci # 0 /\ PendingOf(before.joinRequests, c, s) # {}) =>
                 IF UnusableAt(before.joinCodes, ci, procs[p].at)
                 THEN /\ resp' = Response("submit", 400, "CodeUnusable")
                      /\ Kept(p)
                 ELSE IF RowsOf(before.enrollments, c, s) = {}
                 THEN /\ resp' = Response("submit", 400, "RequestPending")
                      /\ Kept(p)
                 ELSE IF EnrolledIn(before.enrollments, c, s)
                 THEN /\ resp' = Response("submit", 400, "AlreadyEnrolled")
                      /\ Kept(p)
                 ELSE /\ resp' = Response("submit", 200, "Rejoined")
                      /\ Len(joinRequests) = Len(before.joinRequests)
                      /\ nextRequestId = before.nextRequestId

C8_PendingBlocksResubmit == [][C8_ResubmitStep]_vars

\* C8 witness: a second submission was answered RequestPending
C8_Witness ==
    /\ resp = Response("submit", 400, "RequestPending")
    /\ \E i \in 1..Len(joinRequests) :
         /\ joinRequests[i].status = "pending"
         /\ RowsOf(enrollments, joinRequests[i].classId,
                   joinRequests[i].studentId) = {}

----------------------------------------------------------------------------
\* The code an IssueJoinCode stores: expiry 10 minutes after the clock the
\* handler read (at a time T between the arrival of the request and its
\* answer), usage counter 0 and cap 50
C9_IssueStep ==
    \A p \in DOMAIN procs :
        (Sends(p, "issue") /\ resp'.result = "Issued") =>
            LET new == joinCodes[Len(joinCodes)]
            IN /\ Len(joinCodes) = Len(procs[p].pre.joinCodes) + 1
               /\ new.expiresAt = procs[p].at + 600000
               /\ procs[p].began <= procs[p].at
               /\ procs[p].at <= now
               /\ new.usageCount = 0
               /\ new.maxUsage = 50
               /\ new.classId = procs[p].classId

C9_ExpiryFixed ==
    joinCodes' # joinCodes =>
        \A i \in 1..Len(joinCodes) :
            i <= Len(joinCodes') /\ joinCodes'[i].expiresAt = joinCodes[i].expiresAt

\* C9 as claimed: a join code issued at time T gets expiry T + 10 minutes,
\* usage counter 0 and cap 50; ValidateJoinCode on it at any time later than
\* T + 10 minutes returns Expired, and at any time before T + 10 minutes
\* never returns Expired while the code is still active.
C9_AlwaysExpiredAfter ==
    [][/\ C9_IssueStep
       /\ C9_ExpiryFixed
       /\ \A p \in DOMAIN procs :
            Sends(p, "validate") =>
               LET before == procs[p].pre.joinCodes
                   named == CodesNamedIn(before, procs[p].code)
                   ci == CodeIn(before, procs[p].code)
               IN /\ (/\ named # {}
                      /\ \A i \in named : procs[p].began > before[i].expiresAt) =>
                        resp'.result = "Expired"
                  /\ (ci # 0 /\ now < before[ci].expiresAt) =>
                        resp'.result # "Expired"]_vars

\* C9 amended: a join code issued at time T (the clock the handler read) is
\* stored with expiry T + 10 minutes, usage counter 0 and cap 50, and its
\* expiry never changes; a ValidateJoinCode call that finds the code active
\* returns Expired exactly when the clock it checks the code with is later
\* than the expiry, and a call that finds it no longer active (after the
\* first Expired answer, or a newer code of the class) returns 404 invalid
\* code, also after the expiry.
C9_ValidateStep ==
    \A p \in DOMAIN procs :
        Sends(p, "validate") =>
            LET before == procs[p].pre.joinCodes
                ci == CodeIn(before, procs[p].code)
            IN IF ci # 0
               THEN /\ resp'.result = "Expired" <=>
                         procs[p].at > before[ci].expiresAt
                    /\ procs[p].began <= procs[p].at
                    /\ procs[p].at <= now
               ELSE resp' = Response("validate", 404, "InvalidCode")

C9_TenMinuteExpiry ==
    [][C9_IssueStep /\ C9_ExpiryFixed /\ C9_ValidateStep]_vars

\* C9 witness: a code issued at time 0 was reported Expired at 10 minutes + 1 ms
C9_Witness ==
    /\ resp = Response("validate", 400, "Expired")
    /\ now = 600001
    /\ \E i \in 1..Len(joinCodes) :
         joinCodes[i].expiresAt = 600000 /\ joinCodes[i].usageCount = 0

----------------------------------------------------------------------------
\* What a SubmitJoinRequest that creates a request leaves behind
C10_CreatesRequest(p) ==
    LET before == procs[p].pre
        c == before.joinCodes[CodeIn(before.joinCodes, procs[p].code)].classId
        s == procs[p].studentId
    IN /\ resp' = Response("submit", 200, "RequestCreated")
       /\ nextRequestId = before.nextRequestId + 1
       /\ \E k \in 1..Len(joinRequests) :
            /\ joinRequests[k].id = before.nextRequestId
            /\ joinRequests[k].classId = c
            /\ joinRequests[k].studentId = s
            /\ joinRequests[k].status = "pending"
       /\ \A k \in 1..Len(before.joinRequests) :
            before.joinRequests[k].id # before.nextRequestId
       /\ enrollments = before.enrollments
       /\ classes = before.classes
       /\ RowsOf(enrollments, c, s) = {}

\* The call, of a student, found a usable code, and the student has no
\* enrollment row for the class of the code
C10_NoRow(p) ==
    LET before == procs[p].pre
        ci == CodeIn(before.joinCodes, procs[p].code)
    IN /\ ByStudent(p)
       /\ ~CodeUnusable(before.joinCodes, ci)
       /\ RowsOf(before.enrollments, before.joinCodes[ci].classId,
                 procs[p].studentId) = {}

\* C10 as claimed: SubmitJoinRequest with a usable code by a student with no
\* enrollment row for the class creates a pending request and leaves the
\* enrollments alone.
C10_AlwaysCreates ==
    [][\A p \in DOMAIN procs :
         (Sends(p, "submit") /\ C10_NoRow(p)) => C10_CreatesRequest(p)]_vars

\* C10 amended: SubmitJoinRequest with a usable code by a student who has no
\* enrollment row and no pending request for the class creates a pending
\* request and creates or activates no enrollment; the student has no
\* enrollment row until the teacher approves a request of the student or
\* adds the student through the roster route.
C10_SubmitStep ==
    \A p \in DOMAIN procs :
        (Sends(p, "submit") /\ C10_NoRow(p)) =>
            LET before == procs[p].pre
                ci == CodeIn(before.joinCodes, procs[p].code)
            IN PendingOf(before.joinRequests, before.joinCodes[ci].classId,
                         procs[p].studentId) = {} => C10_CreatesRequest(p)

C10_OnlyTeacherEnrolls ==
    enrollments' # enrollments =>
        \A c \in ClassIds, s \in Students :
            (RowsOf(enrollments, c, s) = {} /\ RowsOf(enrollments', c, s) # {}) =>
                \/ RosterAdds
                \/ \E p \in DOMAIN procs :
                       /\ Acts(p, "resolve")
                       /\ procs[p].action = "approve"
                       /\ procs[p].classId = c
                       /\ procs[p].studentId = s

C10_NewRequestPending == [][C10_SubmitStep /\ C10_OnlyTeacherEnrolls]_vars

\* C10 witness: a request was created and the student has no enrollment row
C10_Witness ==
    /\ resp = Response("submit", 200, "RequestCreated")
    /\ \E k \in 1..Len(joinRequests) :
         /\ joinRequests[k].status = "pending"
         /\ RowsOf(enrollments, joinRequests[k].classId, joinRequests[k].studentId) = {}
    /\ Len(enrollments) >= 1

----------------------------------------------------------------------------
\* C11: SubmitJoinRequest with a usable code by a student whose enrollment
\* row for the class exists and is inactive answers with the rejoin success,
\* sets that row active without adding a row, creates no join request, sets
\* every pending or rejected request of the (class, student) pair to approved,
\* leaves every other request as it was, and leaves no request of the pair
\* pending.
C11_RejoinStep ==
    \A p \in DOMAIN procs :
        Sends(p, "submit") =>
            LET before == procs[p].pre
                s == procs[p].studentId
                ci == CodeIn(before.joinCodes, procs[p].code)
                c == before.joinCodes[ci].classId
                ei == EnrollmentIdx(before.enrollments, c, s)
            IN (/\ ~CodeUnusable(before.joinCodes, ci)
                /\ ei # 0
                /\ ~before.enrollments[ei].isActive) =>
                  /\ resp' = Response("submit", 200, "Rejoined")
                  /\ Len(enrollments) = Len(before.enrollments)
                  /\ enrollments[ei].isActive
                  /\ nextRequestId = before.nextRequestId
                  /\ Len(joinRequests) = Len(before.joinRequests)
                  /\ \A k \in 1..Len(before.joinRequests) :
                        IF /\ before.joinRequests[k].classId = c
                           /\ before.joinRequests[k].studentId = s
                           /\ before.joinRequests[k].status \in {"pending", "rejected"}
                        THEN /\ joinRequests[k].status = "approved"
                             /\ joinRequests[k].id = before.joinRequests[k].id
                        ELSE joinRequests[k] = before.joinRequests[k]
                  /\ PendingOf(joinRequests, c, s) = {}

C11_RejoinReactivates == [][C11_RejoinStep]_vars

\* C11 witness: a rejoin went through and a request that no teacher processed
\* is approved
C11_Witness ==
    /\ resp = Response("submit", 200, "Rejoined")
    /\ \E k \in 1..Len(joinRequests) :
         /\ joinRequests[k].status = "approved"
         /\ joinRequests[k].processedBy = "none"
         /\ EnrolledIn(enrollments, joinRequests[k].classId, joinRequests[k].studentId)

----------------------------------------------------------------------------
\* C12: SubmitJoinRequest with a usable code by a student who has an active
\* enrollment in the class, by an approval or by the teacher's roster route,
\* fails with AlreadyEnrolled (400) and leaves the
\* join codes, the join requests, the enrollments and the classes unchanged.
C12_EnrolledStep ==
    \A p \in DOMAIN procs :
        Sends(p, "submit") =>
            LET before == procs[p].pre
                ci == CodeIn(before.joinCodes, procs[p].code)
            IN (/\ ~CodeUnusable(before.joinCodes, ci)
                /\ EnrolledIn(before.enrollments, before.joinCodes[ci].classId,
                              procs[p].studentId)) =>
                  /\ resp' = Response("submit", 400, "AlreadyEnrolled")
                  /\ Kept(p)

C12_AlreadyEnrolledNoChange == [][C12_EnrolledStep]_vars

\* C12 witness: a student the teacher enrolled without a join request
\* submitted and was told so
C12_Witness ==
    /\ resp = Response("submit", 400, "AlreadyEnrolled")
    /\ \E e \in 1..Len(enrollments) : enrollments[e].isActive
    /\ \A k \in 1..Len(joinRequests) : joinRequests[k].status # "approved"

----------------------------------------------------------------------------
\* C13 as stated: every SubmitJoinRequest call that finds a code and does not
\* take the reactivation path increments that code's usage counter by one.
C13_EveryCallIncrements ==
    [][\A p \in DOMAIN procs :
         (Sends(p, "submit") /\ resp'.result # "Rejoined") =>
            LET before == procs[p].pre.joinCodes
                ci == CodeIn(before, procs[p].code)
            IN ci # 0 => joinCodes[ci].usageCount = before[ci].usageCount + 1]_vars

\* C13 amended: a SubmitJoinRequest call that succeeds (it creates a join
\* request or reactivates the enrollment) increments the usage counter of the
\* code it found by exactly one and changes no other field or code; a call
\* that fails (unusable code, AlreadyEnrolled, RequestPending, or a request
\* without a code or without a student on file) changes no join code at all.
C13_UsageStep ==
    \A p \in DOMAIN procs :
        Sends(p, "submit") =>
            LET before == procs[p].pre.joinCodes
                ci == CodeIn(before, procs[p].code)
            IN IF resp'.status = 200
               THEN /\ ci # 0
                    /\ resp'.result \in {"RequestCreated", "Rejoined"}
                    /\ Len(joinCodes) = Len(before)
                    /\ joinCodes[ci] =
                         [before[ci] EXCEPT !.usageCount = before[ci].usageCount + 1]
                    /\ \A i \in 1..Len(before) : i # ci => joinCodes[i] = before[i]
               ELSE /\ resp'.result \in {"CodeUnusable", "AlreadyEnrolled",
                                         "RequestPending", "CodeRequired",
                                         "StudentNotFound"}
                    /\ joinCodes = before

C13_SuccessIncrementsOnce == [][C13_UsageStep]_vars

\* C13 witness: a submit failed with RequestPending after the one that created
\* the request, and the code's counter still stands at one
C13_Witness ==
    /\ resp = Response("submit", 400, "RequestPending")
    /\ Len(joinRequests) = 1
    /\ joinRequests[1].status = "pending"
    /\ \E i \in 1..Len(joinCodes) :
         /\ joinCodes[i].isActive
         /\ joinCodes[i].classId = joinRequests[1].classId
         /\ joinCodes[i].usageCount = 1

----------------------------------------------------------------------------
\* C14: with handlers run one at a time, when a student whose only request
\* for a class is rejected calls SubmitJoinRequest with a usable code, the
\* call succeeds and afterwards the (class, student) pair has exactly one
\* request, a new pending one; the rejected request is gone, and the requests
\* of other pairs are as before.  (The student has no enrollment row: one
\* whom the roster route enrolled is answered as C11 and C12 say.)
C14_ResubmitStep ==
    \A p \in DOMAIN procs :
        Sends(p, "submit") =>
            LET before == procs[p].pre
                s == procs[p].studentId
                ci == CodeIn(before.joinCodes, procs[p].code)
                c == before.joinCodes[ci].classId
                old == RequestsOf(before.joinRequests, c, s)
                new == RequestsOf(joinRequests, c, s)
            IN (/\ ~CodeUnusable(before.joinCodes, ci)
                /\ Cardinality(old) = 1
                /\ \A k \in old : before.joinRequests[k].status = "rejected"
                /\ RowsOf(before.enrollments, c, s) = {}) =>
                  /\ resp' = Response("submit", 200, "RequestCreated")
                  /\ Cardinality(new) = 1
                  /\ \A k \in new :
                        /\ joinRequests[k].status = "pending"
                        /\ joinRequests[k].id = before.nextRequestId
                        /\ \A j \in old : before.joinRequests[j].id # joinRequests[k].id
                  /\ \A j \in old :
                        RequestsWithId(joinRequests, before.joinRequests[j].id) = {}
                  /\ \A k \in 1..Len(joinRequests) : joinRequests[k].status = "rejected" =>
                        ~(joinRequests[k].classId = c /\ joinRequests[k].studentId = s)
                  /\ RequestsBeside(joinRequests, c, s) =
                        RequestsBeside(before.joinRequests, c, s)

----------------------------------------------------------------------------
\* C15: ResolveJoinRequest with action approve or reject, on a request id
\* that no request of that class carries or whose request is already approved
\* or rejected, fails with a 404 (the request is not found, or the class is
\* not the caller's) and changes no request, enrollment, class or join code.
C15_MissingStep ==
    \A p \in DOMAIN procs :
        (Sends(p, "resolve") /\ procs[p].action \in {"approve", "reject"}) =>
            LET before == procs[p].pre.joinRequests
                c == procs[p].classId
            IN (\A k \in RequestsWithId(before, procs[p].rid) :
                    \/ before[k].classId # c
                    \/ before[k].status \in {"approved", "rejected"}) =>
                  /\ resp'.result = IF OwnsClass(c, procs[p].teacherId)
                                    THEN "RequestNotFound" ELSE "ClassNotFound"
                  /\ resp'.status = 404
                  /\ Kept(p)

C15_NotFoundStep ==
    \A p \in DOMAIN procs :
        (/\ Sends(p, "resolve")
         /\ resp'.result \in {"RequestNotFound", "ClassNotFound"}) =>
            /\ resp'.status = 404
            /\ Kept(p)

C15_ResolvedNotFound == [][C15_MissingStep /\ C15_NotFoundStep]_vars

\* C15 witness: the owner resolved a request a second time and was told it is
\* not there
C15_Witness ==
    /\ resp = Response("resolve", 404, "RequestNotFound")
    /\ \E k \in 1..Len(joinRequests) :
         /\ joinRequests[k].status \in {"approved", "rejected"}
         /\ joinRequests[k].processedBy # "none"
         /\ joinRequests[k].id > 1

----------------------------------------------------------------------------
\* C16: IssueJoinCode for a class that does not exist or whose teacher is not
\* the caller fails with NotFound (404), creates no code and changes no
\* existing join code of any class, nor anything else in the store.
C16_NotOwnerStep ==
    \A p \in DOMAIN procs :
        Sends(p, "issue") =>
            LET c == procs[p].classId
            IN (IF c \in DOMAIN classes
                THEN classes[c].teacherId # procs[p].teacherId ELSE TRUE) =>
                  /\ resp' = Response("issue", 404, "NotFound")
                  /\ joinCodes = procs[p].pre.joinCodes
                  /\ Kept(p)

C16_IssueNotFound == [][C16_NotOwnerStep]_vars

\* C16 witness: the issue was refused while a code issued before is active
C16_Witness ==
    /\ resp = Response("issue", 404, "NotFound")
    /\ \E i \in 1..Len(joinCodes) :
         joinCodes[i].isActive /\ joinCodes[i].usageCount = 0

----------------------------------------------------------------------------
\* C17: ValidateJoinCode changes no join code's usage counter and no join
\* request, enrollment or class; the only write it can make is isActive =
\* false on the code it found, and only when it found that code past its
\* expiry.  This holds of every database operation of the handler, whatever
\* another ValidateJoinCode call does in between and however the clock moves.
C17_ValidateStep ==
    /\ UNCHANGED <<classes, joinRequests, nextRequestId, enrollments>>
    /\ Len(joinCodes') = Len(joinCodes)
    /\ \A i \in 1..Len(joinCodes) :
          /\ joinCodes'[i].usageCount = joinCodes[i].usageCount
          /\ \/ joinCodes'[i] = joinCodes[i]
             \/ /\ joinCodes'[i] = [joinCodes[i] EXCEPT !.isActive = FALSE]
                /\ \E p \in Procs :
                     /\ procs[p].op = "validate"
                     /\ procs[p].pc = "expire"
                     /\ procs[p].ci = i
                     /\ procs[p].at > joinCodes[i].expiresAt
                     /\ procs'[p].result = "Expired"
                     /\ joinCodes[i].joinCode = ToUpperCase(procs[p].code)

C17_ValidateReadOnly == [][C17_ValidateStep]_vars

\* C17 witness: two calls both found the code the student had submitted
\* active and past its expiry, both switched it off and both answered
\* Expired; its counter is as the submit left it and the request is pending
C17_Witness ==
    /\ \A p \in Procs : procs[p].pc = "done" /\ procs[p].result = "Expired"
    /\ \E i \in 1..Len(joinCodes) :
         /\ ~joinCodes[i].isActive
         /\ now > joinCodes[i].expiresAt
         /\ joinCodes[i].usageCount = 1
         /\ \E k \in 1..Len(joinRequests) :
              /\ joinRequests[k].classId = joinCodes[i].classId
              /\ joinRequests[k] = NewJoinRequest(1, "c1", "s1")

----------------------------------------------------------------------------
\* C18: for an active code, ValidateJoinCode answers with the first failure
\* in the order Expired (the code is past its expiry when the call checks
\* it), UsageExceeded, AlreadyEnrolled (an active enrollment exists),
\* RequestPending (a pending request exists), and with the class data (200)
\* exactly when none of the four holds; inactive enrollments and rejected or
\* approved requests do not count.
C18_Expected(store, ci, s, at) ==
    LET doc == store.joinCodes[ci]
    IN IF at > doc.expiresAt THEN "Expired"
       ELSE IF doc.usageCount >= doc.maxUsage THEN "UsageExceeded"
       ELSE IF EnrolledIn(store.enrollments, doc.classId, s) THEN "AlreadyEnrolled"
       ELSE IF PendingOf(store.joinRequests, doc.classId, s) # {} THEN "RequestPending"
       ELSE "Valid"

C18_OrderStep ==
    \A p \in DOMAIN procs :
        Sends(p, "validate") =>
            LET before == procs[p].pre
                ci == CodeIn(before.joinCodes, procs[p].code)
            IN ci # 0 =>
                 /\ resp'.result =
                       C18_Expected(before, ci, procs[p].studentId, procs[p].at)
                 /\ resp'.status = 200 <=> resp'.result = "Valid"

----------------------------------------------------------------------------
\* C19: in every reachable state no two active join codes, of one class or
\* of two, carry the same code value.  Two POST /c1/generate-join-code calls
\* that both generate their value before either creates its code store the
\* same value twice, both active.
C19_DistinctActiveValues ==
    \A i, j \in 1..Len(joinCodes) :
        (/\ i # j
         /\ joinCodes[i].isActive
         /\ joinCodes[j].isActive) => joinCodes[i].joinCode # joinCodes[j].joinCode

----------------------------------------------------------------------------
\* C20: ResolveJoinRequest with action reject by the owning teacher on a
\* pending request answers 200, sets that request's status to rejected with
\* a reason and the teacher as processor, and changes nothing else: every
\* other request, the enrollments, the classes (studentCount included) and
\* the join codes are as before.
C20_RejectStep ==
    \A p \in DOMAIN procs :
        (Sends(p, "resolve") /\ procs[p].action = "reject") =>
            LET before == procs[p].pre
                c == procs[p].classId
                t == procs[p].teacherId
            IN \A k \in 1..Len(before.joinRequests) :
                 (/\ before.joinRequests[k].id = procs[p].rid
                  /\ before.joinRequests[k].classId = c
                  /\ before.joinRequests[k].status = "pending"
                  /\ t = ClassOwner(c)
                  /\ OwnsClass(c, t)) =>
                    /\ resp' = Response("resolve", 200, "Rejected")
                    /\ Len(joinRequests) = Len(before.joinRequests)
                    /\ joinRequests[k] =
                         [before.joinRequests[k] EXCEPT
                            !.status = "rejected",
                            !.processedBy = t,
                            !.rejectionReason = joinRequests[k].rejectionReason]
                    /\ joinRequests[k].rejectionReason # "none"
                    /\ \A j \in 1..Len(before.joinRequests) :
                          j # k => joinRequests[j] = before.joinRequests[j]
                    /\ classes = before.classes
                    /\ enrollments = before.enrollments
                    /\ joinCodes = before.joinCodes
                    /\ nextRequestId = before.nextRequestId

C20_RejectOnlyMarks == [][C20_RejectStep]_vars

\* C20 witness: a request created in this run was rejected and its student
\* has no enrollment
C20_Witness ==
    /\ resp = Response("resolve", 200, "Rejected")
    /\ \E k \in 1..Len(joinRequests) :
         /\ joinRequests[k].status = "rejected"
         /\ joinRequests[k].id = nextRequestId - 1
         /\ joinRequests[k].rejectionReason = "Request rejected by teacher"
         /\ RowsOf(enrollments, joinRequests[k].classId, joinRequests[k].studentId) = {}
         /\ classes[joinRequests[k].classId].studentCount = 0

----------------------------------------------------------------------------
\* C21: ResolveJoinRequest with an action other than approve or reject fails
\* with InvalidAction (400) whatever the class, the caller and the request
\* are, and changes nothing in the store.
C21_InvalidStep ==
    \A p \in DOMAIN procs :
        (Sends(p, "resolve") /\ procs[p].action \notin {"approve", "reject"}) =>
            /\ resp' = Response("resolve", 400, "InvalidAction")
            /\ Kept(p)

C21_OnlyInvalid ==
    \A p \in DOMAIN procs :
        (Sends(p, "resolve") /\ resp'.result = "InvalidAction") =>
            /\ procs[p].action \notin {"approve", "reject"}
            /\ resp'.status = 400
            /\ Kept(p)

C21_InvalidActionNoChange == [][C21_InvalidStep /\ C21_OnlyInvalid]_vars

\* C21 witness: the action was refused while a request was waiting for its
\* teacher
C21_Witness ==
    /\ resp = Response("resolve", 400, "InvalidAction")
    /\ \E k \in 1..Len(joinRequests) :
         /\ joinRequests[k].status = "pending"
         /\ OwnsClass(joinRequests[k].classId, ClassOwner(joinRequests[k].classId))

----------------------------------------------------------------------------
\* C22: when two SubmitJoinRequest calls on one code interleave, each can
\* pass the cap check before the other increments, so the usage counter can
\* end above the cap.  It does so only once every call in flight has passed
\* the check and incremented, and by no more than the calls beyond the first.
C22_OvershootByRace ==
    \A i \in 1..Len(joinCodes) :
        /\ joinCodes[i].usageCount <= joinCodes[i].maxUsage + Cardinality(Procs) - 1
        /\ joinCodes[i].usageCount > joinCodes[i].maxUsage =>
              \A p \in Procs :
                  /\ procs[p].ci = i
                  /\ procs[p].result \in {"RequestCreated", "Rejoined"}

\* C22 witness: two students were both accepted through a code that had one
\* use left, and its counter stands above the cap
C22_Witness ==
    /\ procs[1].studentId # procs[2].studentId
    /\ procs[1].result = "RequestCreated"
    /\ procs[2].result = "RequestCreated"
    /\ \E i \in 1..Len(joinCodes) :
         /\ joinCodes[i].usageCount > joinCodes[i].maxUsage
         /\ \A s \in Students :
              PendingOf(joinRequests, joinCodes[i].classId, s) # {}

----------------------------------------------------------------------------
\* C23 as stated: with handlers run one at a time, no teacher owns two
\* active classes with the same name and subject, and a creation that gives a
\* name and a subject is rejected only when the teacher already had an active
\* class with that name and subject when the request arrived.
C23_NoTwinClasses ==
    OneAtATime =>
        \A i, j \in 1..Len(classes) :
            (/\ i # j
             /\ classes[i].isActive
             /\ classes[j].isActive
             /\ classes[i].teacherId = classes[j].teacherId
             /\ classes[i].name = classes[j].name) =>
                classes[i].subject # classes[j].subject

C23_RejectedOnlyForTwin ==
    []C23_NoTwinClasses
    /\ [][\A p \in DOMAIN procs :
            (/\ OneAtATime
             /\ Sends(p, "create")
             /\ procs[p].name # ""
             /\ procs[p].subject # ""
             /\ resp'.status # 200) =>
               \E i \in 1..Len(procs[p].pre.classes) :
                   /\ procs[p].pre.classes[i].isActive
                   /\ procs[p].pre.classes[i].teacherId = procs[p].teacherId
                   /\ procs[p].pre.classes[i].name = Trim(procs[p].name)
                   /\ procs[p].pre.classes[i].subject = Trim(procs[p].subject)]_vars

\* C23 amended: with handlers run one at a time, no teacher owns two active
\* classes with the same name, whatever their subjects; a creation that
\* gives a name and a subject is rejected exactly when the teacher already
\* had an active class with that name (trimmed) when the request arrived, and
\* otherwise stores one new class with the trimmed name and subject and
\* leaves the others as they are.
C23_NameUniquePerTeacher ==
    OneAtATime =>
        \A i, j \in 1..Len(classes) :
            (/\ i # j
             /\ classes[i].isActive
             /\ classes[j].isActive
             /\ classes[i].teacherId = classes[j].teacherId) =>
                classes[i].name # classes[j].name

C23_CreateStep ==
    \A p \in DOMAIN procs :
        (/\ OneAtATime
         /\ Sends(p, "create")
         /\ procs[p].name # ""
         /\ procs[p].subject # "") =>
            LET old == procs[p].pre.classes
            IN IF HasClassNamed(old, procs[p].teacherId, procs[p].name)
               THEN /\ resp' = Response("create", 400, "NameTaken")
                    /\ classes = old
               ELSE /\ resp' = Response("create", 200, "Created")
                    /\ Len(classes) = Len(old) + 1
                    /\ \A i \in 1..Len(old) : classes[i] = old[i]
                    /\ classes[Len(classes)].teacherId = procs[p].teacherId
                    /\ classes[Len(classes)].name = Trim(procs[p].name)
                    /\ classes[Len(classes)].subject = Trim(procs[p].subject)
                    /\ classes[Len(classes)].isActive

C23_UniqueClassNames == []C23_NameUniquePerTeacher /\ [][C23_CreateStep]_vars

\* C23 witness: with handlers run one at a time, a teacher with a class was
\* refused a second one of the same name, while the other teacher has a class
\* of that name
C23_Witness ==
    /\ OneAtATime
    /\ resp = Response("create", 400, "NameTaken")
    /\ \E i, j \in 1..Len(classes) :
         /\ classes[i].teacherId # classes[j].teacherId
         /\ classes[i].name = classes[j].name

----------------------------------------------------------------------------
\* C24: with the mail service working, the response of POST /forgot-password
\* to a submitted email is the generic success message it gives for an email
\* no account has, whether or not an account with that email exists.
C24_SameResponse ==
    [][\A p \in DOMAIN procs :
         (/\ Sends(p, "forgot")
          /\ procs[p].email # ""
          /\ procs[p].result # MsgResetMailFailed) =>
             resp' = Response("forgot", 302, MsgResetSent)]_vars

----------------------------------------------------------------------------
\* C25: when two approve calls for the pending requests of two different
\* students of one class interleave between their database operations, then
\* once both have answered with success the class's studentCount equals the
\* number of active enrollments of the class.
C25_CountAfterApproves ==
    (/\ AllDone
     /\ \A p \in Procs : procs[p].result = "Approved"
     /\ procs[1].studentId # procs[2].studentId) =>
        classes["c1"].studentCount = CountActiveStudents(enrollments, "c1")

----------------------------------------------------------------------------
\* C27: when two approve calls for the same pending request interleave
\* between their database operations, the (class, student) pair has at most
\* one enrollment row once both have answered.
C27_OneRowAfterApproves ==
    (/\ AllDone
     /\ \A p \in Procs : procs[p].action = "approve"
     /\ procs[1].rid = procs[2].rid) =>
        \A s \in Students : Cardinality(RowsOf(enrollments, "c1", s)) <= 1

----------------------------------------------------------------------------
\* C28: when an approve and a reject of the same pending request interleave
\* between their database operations, the request does not end rejected
\* while the enrollment its approval created or reactivated is active.
C28_NoRejectedButEnrolled ==
    (/\ AllDone
     /\ procs[1].rid = procs[2].rid
     /\ {procs[1].result, procs[2].result} = {"Approved", "Rejected"}) =>
        \A k \in RequestsWithId(joinRequests, procs[1].rid) :
            joinRequests[k].status = "rejected" =>
                \A e \in RowsOf(enrollments, joinRequests[k].classId,
                                 joinRequests[k].studentId) : ~enrollments[e].isActive

----------------------------------------------------------------------------
\* C26: when two IssueJoinCode calls for the same class interleave between
\* their database operations (deactivate-all, then create), the class has at
\* most one active join code once both have answered.
C26_OneActiveAfterIssues ==
    AllDone => Cardinality(ActiveCodesOf(joinCodes, "c1")) <= 1

----------------------------------------------------------------------------
\* C29: within the enrollment workflow (the handlers of the join codes and
\* the join requests; the roster route is outside it) a student with no
\* enrollment row for a class gets one only in a step
\* where the teacher who owns the class approves a pending request of that
\* student for that class; ValidateJoinCode and SubmitJoinRequest never give
\* such a student a row; and an approve or reject by a teacher who does not
\* own the class fails with ClassNotFound and changes nothing in the store.
C29_StrangerRefused ==
    \A p \in DOMAIN procs :
        (Sends(p, "resolve") /\ procs[p].action \in {"approve", "reject"}) =>
            LET c == procs[p].classId
            IN (IF c \in DOMAIN classes
                THEN classes[c].teacherId # procs[p].teacherId ELSE TRUE) =>
                  /\ resp' = Response("resolve", 404, "ClassNotFound")
                  /\ Kept(p)

C29_RefusedStep ==
    \A p \in DOMAIN procs :
        (Sends(p, "resolve") /\ resp'.result = "ClassNotFound") =>
            /\ resp'.status = 404
            /\ Kept(p)

C29_EnrolledByOwner ==
    (enrollments' # enrollments /\ ~RosterAdds) =>
        \A c \in ClassIds, s \in Students :
            (RowsOf(enrollments, c, s) = {} /\ RowsOf(enrollments', c, s) # {}) =>
                /\ \E p \in DOMAIN procs :
                     /\ Acts(p, "resolve")
                     /\ procs[p].action = "approve"
                     /\ procs[p].classId = c
                     /\ procs[p].studentId = s
                     /\ procs[p].teacherId = ClassOwner(c)
                     /\ \E k \in PendingOf(joinRequests, c, s) :
                          joinRequests[k].id = procs[p].rid
                /\ \A e \in RowsOf(enrollments', c, s) : enrollments'[e].isActive

\* The approval that gave the student the row answers with the request
\* approved by the owner
C29_ApprovedByOwner ==
    \A p \in DOMAIN procs :
        (Sends(p, "resolve") /\ resp'.result = "Approved") =>
            /\ procs[p].teacherId = ClassOwner(procs[p].classId)
            /\ \E k \in RequestsWithId(joinRequests, procs[p].rid) :
                 /\ joinRequests[k].status = "approved"
                 /\ joinRequests[k].processedBy = ClassOwner(procs[p].classId)
                 /\ joinRequests[k].classId = procs[p].classId

C29_StudentCallsStep ==
    \A p \in DOMAIN procs :
        (Acts(p, "validate") \/ Acts(p, "submit")) =>
            \A c \in ClassIds, s \in Students :
                RowsOf(enrollments, c, s) = {} => RowsOf(enrollments', c, s) = {}

C29_OnlyOwnerEnrolls ==
    [][/\ C29_StrangerRefused
       /\ C29_RefusedStep
       /\ C29_EnrolledByOwner
       /\ C29_ApprovedByOwner
       /\ C29_StudentCallsStep]_vars

\* C29 witness: the other teacher was refused while a student's request for
\* the class was pending, after the owner had enrolled another student
C29_Witness ==
    /\ resp = Response("resolve", 404, "ClassNotFound")
    /\ \E k \in 1..Len(joinRequests) :
         /\ joinRequests[k].status = "pending"
         /\ OwnsClass(joinRequests[k].classId, ClassOwner(joinRequests[k].classId))
         /\ RowsOf(enrollments, joinRequests[k].classId, joinRequests[k].studentId) = {}
    /\ \E e \in 1..Len(enrollments) : enrollments[e].isActive

----------------------------------------------------------------------------
\* C30: a join code's usage counter never decreases and no code is ever
\* dropped; a new code starts at zero; a counter changes only in a step of a
\* SubmitJoinRequest that goes on to succeed, and then only one code's
\* counter changes, by exactly one.  A successful SubmitJoinRequest
\* (RequestCreated or Rejoined) adds one to the counter of the code it was
\* made with, and a failing one leaves every counter as it was.  With
\* handlers run one at a time a counter therefore equals the number of
\* successful submissions made with its code.
C30_CounterOf(codes) == [i \in 1..Len(codes) |-> codes[i].usageCount]

C30_CounterStep ==
    joinCodes' # joinCodes =>
        /\ Len(joinCodes') >= Len(joinCodes)
        /\ \A i \in 1..Len(joinCodes') :
             IF i > Len(joinCodes)
             THEN joinCodes'[i].usageCount = 0
             ELSE /\ joinCodes'[i].usageCount >= joinCodes[i].usageCount
                  /\ joinCodes'[i].joinCode = joinCodes[i].joinCode
                  /\ joinCodes'[i].usageCount # joinCodes[i].usageCount =>
                       /\ \E p \in DOMAIN procs :
                            /\ Acts(p, "submit")
                            /\ procs[p].ci = i
                            /\ procs'[p].pc = "rejoinCount"
                               \/ procs'[p].result = "RequestCreated"
                       /\ joinCodes'[i].usageCount = joinCodes[i].usageCount + 1
                       /\ \A j \in 1..Len(joinCodes) :
                            j # i => joinCodes'[j].usageCount = joinCodes[j].usageCount

C30_SubmitStep ==
    \A p \in DOMAIN procs :
        Sends(p, "submit") =>
            LET before == procs[p].pre.joinCodes
                ci == CodeIn(before, procs[p].code)
            IN IF resp'.result \in {"RequestCreated", "Rejoined"}
               THEN /\ ci # 0
                    /\ C30_CounterOf(joinCodes) =
                         [C30_CounterOf(before) EXCEPT ![ci] = @ + 1]
               ELSE C30_CounterOf(joinCodes) = C30_CounterOf(before)

C30_CounterCountsSuccesses == [][C30_CounterStep /\ C30_SubmitStep]_vars

\* C30 witness: a submission failed after two had succeeded with the same
\* code, whose counter stands at two
C30_Witness ==
    /\ resp.op = "submit"
    /\ resp.status # 200
    /\ \E i \in 1..Len(joinCodes) : joinCodes[i].usageCount = 2

----------------------------------------------------------------------------
\* C31: with handlers run one at a time, a join request is created pending;
\* a pending request stays, or is approved (by an approve or a reactivation),
\* or is rejected (by a reject); a rejected request stays, or is approved by
\* a reactivation, or is deleted by the submission that replaces it; an
\* approved request is never modified or deleted; no request returns to
\* pending; and a request keeps its class and its student.
C31_Doc(reqs, id) == reqs[CHOOSE i \in RequestsWithIdIn(reqs, id) : TRUE]

\* The step is the approve, or the reject, of a ResolveJoinRequest
C31_Resolves(action) ==
    \E p \in DOMAIN procs : Acts(p, "resolve") /\ procs[p].action = action

\* The step is the one of a SubmitJoinRequest at this await
C31_Submits(pc) ==
    \E p \in DOMAIN procs : Acts(p, "submit") /\ procs[p].pc = pc

C31_Moved(old, new) ==
    /\ new.classId = old.classId
    /\ new.studentId = old.studentId
    /\ IF old.status = "approved" THEN new = old
       ELSE IF old.status = "pending"
       THEN \/ new = old
            \/ /\ new.status = "approved"
               /\ C31_Resolves("approve") \/ C31_Submits("approvePrior")
            \/ /\ new.status = "rejected"
               /\ C31_Resolves("reject")
       ELSE \/ new = old
            \/ /\ new.status = "approved"
               /\ C31_Submits("approvePrior")

C31_StatusStep ==
    joinRequests' # joinRequests =>
        \A id \in 1..nextRequestId :
            LET was == RequestsWithIdIn(joinRequests, id)
                is == RequestsWithIdIn(joinRequests', id)
            IN /\ Cardinality(is) <= 1
               /\ (was = {} /\ is # {}) =>
                     /\ id = nextRequestId
                     /\ C31_Doc(joinRequests', id).status = "pending"
                     /\ C31_Submits("create")
               /\ (was # {} /\ is = {}) =>
                     /\ C31_Doc(joinRequests, id).status = "rejected"
                     /\ C31_Submits("deleteRejected")
               /\ (was # {} /\ is # {}) =>
                     C31_Moved(C31_Doc(joinRequests, id), C31_Doc(joinRequests', id))

\* The submission that deleted a rejected request goes on to create its
\* replacement: when it answers, the pair has a pending request
C31_Replaced ==
    \A p \in DOMAIN procs :
        (Sends(p, "submit") /\ resp'.result = "RequestCreated") =>
            PendingOf(joinRequests, procs[p].classId, procs[p].studentId) # {}

C31_StatusMoves == [][C31_StatusStep /\ C31_Replaced]_vars

\* C31 witness: a student rejoined while the request the teacher had approved
\* for them was on file, and it still names the teacher
C31_Witness ==
    /\ resp = Response("submit", 200, "Rejoined")
    /\ \E k \in 1..Len(joinRequests) :
         /\ joinRequests[k].status = "approved"
         /\ joinRequests[k].processedBy = ClassOwner(joinRequests[k].classId)
         /\ joinRequests[k].id > 1

----------------------------------------------------------------------------
\* C32: a join code whose isActive flag is false is never changed again, so
\* it never becomes active again; and while no active code carries its
\* value, every ValidateJoinCode and SubmitJoinRequest with that value (in
\* either letter case) fails and changes nothing in the store (with the
\* invalid-code error; a request of a session without a student record fails
\* on that, before the code is looked up).
C32_RetiredValue(codes, code) ==
    /\ \E i \in 1..Len(codes) :
         ~codes[i].isActive /\ codes[i].joinCode = ToUpperCase(code)
    /\ \A i \in 1..Len(codes) :
         codes[i].isActive => codes[i].joinCode # ToUpperCase(code)

C32_StaysInactive ==
    joinCodes' # joinCodes =>
        \A i \in 1..Len(joinCodes) :
            ~joinCodes[i].isActive =>
                /\ i <= Len(joinCodes')
                /\ joinCodes'[i] = joinCodes[i]

C32_RetiredStep ==
    \A p \in DOMAIN procs :
        (/\ Sends(p, "validate") \/ Sends(p, "submit")
         /\ C32_RetiredValue(procs[p].pre.joinCodes, procs[p].code)) =>
           /\ resp'.status \in {400, 404}
           /\ resp'.result \in IF procs[p].op = "validate" \/ ByStudent(p)
                                THEN {"InvalidCode", "CodeUnusable"}
                                ELSE {"StudentNotFound"}
           /\ Kept(p)

C32_InactiveForGood == [][C32_StaysInactive /\ C32_RetiredStep]_vars

\* C32 witness: a student validated the value of a code that a newer code of
\* the class, with another value, had replaced before its expiry, and was
\* refused
C32_Witness ==
    /\ resp = Response("validate", 404, "InvalidCode")
    /\ \E i, j \in 1..Len(joinCodes) :
         /\ i < j
         /\ ~joinCodes[i].isActive
         /\ ~isExpired(joinCodes[i])
         /\ joinCodes[j].isActive
         /\ joinCodes[j].classId = joinCodes[i].classId
         /\ joinCodes[j].joinCode # joinCodes[i].joinCode
         /\ \A k \in 1..Len(joinCodes) :
              joinCodes[k].isActive => joinCodes[k].joinCode # joinCodes[i].joinCode

----------------------------------------------------------------------------
\* What ValidateJoinCode answers for this input in this store, with this
\* reading of the clock
C33_Validated(store, code, s, at) ==
    LET ci == CodeIn(store.joinCodes, code)
    IN IF ci = 0 THEN "InvalidCode" ELSE C18_Expected(store, ci, s, at)

\* ValidateJoinCode answers so
C33_ValidateStep ==
    \A p \in DOMAIN procs :
        Sends(p, "validate") =>
            resp'.result = C33_Validated(procs[p].pre, procs[p].code,
                                         procs[p].studentId, procs[p].at)

\* The student has an inactive enrollment row for the class of the code
C33_Lapsed(store, code, s) ==
    \E e \in RowsOf(store.enrollments,
                    store.joinCodes[CodeIn(store.joinCodes, code)].classId, s) :
        ~store.enrollments[e].isActive

\* C33 as stated: if ValidateJoinCode(code, student) succeeds then
\* SubmitJoinRequest(code, student) run in the same state, with the same
\* reading of the clock, succeeds, and if ValidateJoinCode fails with
\* AlreadyEnrolled or RequestPending then SubmitJoinRequest fails with the
\* same error.
C33_SameAnswer ==
    [][/\ C33_ValidateStep
       /\ \A p \in DOMAIN procs :
            (Sends(p, "submit") /\ ByStudent(p)) =>
               LET validated == C33_Validated(procs[p].pre, procs[p].code,
                                              procs[p].studentId, procs[p].at)
               IN /\ validated = "Valid" => resp'.status = 200
                  /\ validated \in {"AlreadyEnrolled", "RequestPending"} =>
                        resp'.result = validated]_vars

\* C33 amended: for a student on file, if ValidateJoinCode(code, student)
\* succeeds then SubmitJoinRequest(code, student) run in the same state, with
\* the same reading of the clock, succeeds; if ValidateJoinCode fails with
\* AlreadyEnrolled then SubmitJoinRequest fails with AlreadyEnrolled; if
\* ValidateJoinCode fails with RequestPending then SubmitJoinRequest fails
\* with RequestPending, unless the student has an inactive enrollment in the
\* class: then SubmitJoinRequest succeeds and reactivates it.
C33_AgreeStep ==
    \A p \in DOMAIN procs :
        (Sends(p, "submit") /\ ByStudent(p)) =>
            LET before == procs[p].pre
                code == procs[p].code
                s == procs[p].studentId
                validated == C33_Validated(before, code, s, procs[p].at)
            IN /\ validated = "Valid" =>
                     /\ resp'.status = 200
                     /\ resp'.result =
                          IF C33_Lapsed(before, code, s) THEN "Rejoined"
                          ELSE "RequestCreated"
               /\ validated = "AlreadyEnrolled" =>
                     /\ resp' = Response("submit", 400, "AlreadyEnrolled")
                     /\ Kept(p)
               /\ validated = "RequestPending" =>
                     IF C33_Lapsed(before, code, s)
                     THEN resp' = Response("submit", 200, "Rejoined")
                     ELSE /\ resp' = Response("submit", 400, "RequestPending")
                          /\ Kept(p)

C33_ValidateAgreesWithSubmit == [][C33_ValidateStep /\ C33_AgreeStep]_vars

\* C33 witness: a student whom the teacher had added and removed again,
\* whose request was still pending, submitted and was taken back into the
\* class, the pending request being approved on the way
C33_Witness ==
    /\ resp = Response("submit", 200, "Rejoined")
    /\ Len(joinRequests) = 1
    /\ joinRequests[1].status = "approved"
    /\ joinRequests[1].processedBy = "none"
    /\ \E e \in RowsOf(enrollments, "c1", "s1") : enrollments[e].isActive

----------------------------------------------------------------------------
\* C34: an approve, by the class's teacher, of a pending request whose
\* student has an active enrollment in the class is answered with the error
\* AlreadyEnrolled (400); it marks that request approved by the teacher and
\* changes nothing else: no enrollment row is added or changed and the
\* class's studentCount stays as it was.
C34_EnrolledStep ==
    \A p \in DOMAIN procs :
        (Sends(p, "resolve") /\ procs[p].action = "approve") =>
            LET before == procs[p].pre
                c == procs[p].classId
                t == procs[p].teacherId
            IN \A k \in 1..Len(before.joinRequests) :
                 (/\ before.joinRequests[k].id = procs[p].rid
                  /\ before.joinRequests[k].classId = c
                  /\ before.joinRequests[k].status = "pending"
                  /\ t = ClassOwner(c)
                  /\ OwnsClass(c, t)
                  /\ EnrolledIn(before.enrollments, c,
                                before.joinRequests[k].studentId)) =>
                    /\ resp' = Response("resolve", 400, "AlreadyEnrolled")
                    /\ classes = before.classes
                    /\ enrollments = before.enrollments
                    /\ joinCodes = before.joinCodes
                    /\ nextRequestId = before.nextRequestId
                    /\ joinRequests =
                         [before.joinRequests EXCEPT ![k].status = "approved",
                                                     ![k].processedBy = t]

C34_OnlyEnrolled ==
    \A p \in DOMAIN procs :
        (Sends(p, "resolve") /\ resp'.result = "AlreadyEnrolled") =>
            LET before == procs[p].pre
            IN \E k \in 1..Len(before.joinRequests) :
                 /\ before.joinRequests[k].id = procs[p].rid
                 /\ before.joinRequests[k].status = "pending"
                 /\ EnrolledIn(before.enrollments, procs[p].classId,
                               before.joinRequests[k].studentId)

C34_ApproveOfEnrolled == [][C34_EnrolledStep /\ C34_OnlyEnrolled]_vars

\* C34 witness: the teacher approved the pending request of a student who was
\* enrolled already; the request is approved and the class still has its one
\* row and a count of one
C34_Witness ==
    /\ resp = Response("resolve", 400, "AlreadyEnrolled")
    /\ Len(joinRequests) = 1
    /\ joinRequests[1] = StoredRequest(1, "s1", "approved")
    /\ Len(enrollments) = 1
    /\ enrollments[1].isActive
    /\ classes["c1"].studentCount = 1

----------------------------------------------------------------------------
\* The active codes of the class that are not expired at this reading of the
\* clock
C35_Live(codes, c, at) ==
    {i \in 1..Len(codes) : /\ codes[i].classId = c
                            /\ codes[i].isActive
                            /\ codes[i].expiresAt > at}

\* The class has an active code, and its every active code is past its expiry
C35_Stale(codes, c, at) ==
    /\ ActiveCodesOf(codes, c) # {}
    /\ \A i \in ActiveCodesOf(codes, c) : at > codes[i].expiresAt

\* C35 as claimed: GET active-join-code reports hasActiveCode = true only for
\* a code of that class that is active and not yet expired, with a
\* remainingTime that is never negative.  Read at the step that builds the
\* answer.
C35_OnlyUnexpired ==
    [][\A p \in DOMAIN procs :
         (Acts(p, "active") /\ procs'[p].result = "HasActiveCode") =>
            /\ procs'[p].reply.remainingTime >= 0
            /\ \E i \in C35_Live(joinCodes, procs[p].classId, now) :
                  procs'[p].reply.joinCode = joinCodes[i].joinCode]_vars

\* C35 amended: GET active-join-code by the class's teacher changes nothing
\* in the store.  It reports hasActiveCode = true exactly when the class has
\* a code that is active and not expired at the clock its query was built
\* with, and then with the value and the expiry of such a code; the code can
\* have expired by the time the answer is built.  remainingTime is the whole
\* seconds from a later reading of the clock to the expiry, and 0, never
\* negative, when the code has expired in between.  For a class that has an
\* active code and whose every active code is past its expiry when the
\* request arrives it reports hasActiveCode = false, and the code's isActive
\* flag stays as it was.
C35_ReportStep ==
    \A p \in DOMAIN procs :
        Sends(p, "active") =>
            LET c == procs[p].classId
                live == C35_Live(joinCodes, c, procs[p].at)
            IN /\ Kept(p)
               /\ resp'.status = 200 <=> OwnsClass(c, procs[p].teacherId)
               /\ resp'.status = 200 =>
                    /\ resp'.hasActiveCode <=> live # {}
                    /\ resp'.hasActiveCode =>
                         /\ procs[p].began <= procs[p].at
                         /\ procs[p].at <= now
                         /\ resp'.remainingTime >= 0
                         /\ \E i \in live :
                              /\ resp'.joinCode = joinCodes[i].joinCode
                              /\ resp'.expiresAt = joinCodes[i].expiresAt
                              /\ resp'.remainingTime <=
                                    RemainingTime(joinCodes[i], procs[p].at)
                              /\ resp'.remainingTime >=
                                    RemainingTime(joinCodes[i], now)
                    /\ C35_Stale(joinCodes, c, procs[p].began) =>
                         ~resp'.hasActiveCode

C35_ActiveCodeReport == [][C35_ReportStep]_vars

\* C35 witness: the teacher was told of an active code with no time left: the
\* code was found unexpired and has expired before the answer was built
C35_Witness ==
    /\ resp.op = "active"
    /\ resp.status = 200
    /\ resp.hasActiveCode
    /\ resp.remainingTime = 0
    /\ \E i \in 1..Len(joinCodes) :
         /\ joinCodes[i].joinCode = resp.joinCode
         /\ joinCodes[i].isActive
         /\ now > joinCodes[i].expiresAt

----------------------------------------------------------------------------
\* C36: a password-reset token is accepted at most once: of two
\* POST /reset-password/:token calls with one token, interleaved between
\* their database operations, at most one replaces the password.
C36_AcceptedOnce ==
    \A p, q \in Procs :
        (/\ p # q
         /\ procs[p].op = "reset"
         /\ procs[q].op = "reset"
         /\ procs[p].token = procs[q].token
         /\ procs[p].pc = "done"
         /\ procs[q].pc = "done") =>
            ~(procs[p].result = "Reset" /\ procs[q].result = "Reset")

----------------------------------------------------------------------------
\* C37: with handlers run one at a time, a teacher signup whose email, once
\* lower-cased and trimmed, equals the stored email of a teacher account is
\* rejected with 'User with this email already exists.' and creates no
\* account; and no two teacher accounts hold the same stored email.
C37_DistinctEmails ==
    OneAtATime =>
        \A i, j \in 1..Len(teacherCollection) :
            teacherCollection[i].email = teacherCollection[j].email => i = j

C37_SignupStep ==
    \A p \in DOMAIN procs :
        (/\ OneAtATime
         /\ Acts(p, "signup")
         /\ procs[p].userType = "teacher"
         /\ procs[p].pc = "findExisting"
         /\ AccountByEmail(teacherCollection, LowerTrim(procs[p].email)) # 0) =>
           /\ procs'[p].pc = "done"
           /\ procs'[p].result = "EmailTaken"
           /\ UNCHANGED accounts

C37_TeacherEmailUnique == []C37_DistinctEmails /\ [][C37_SignupStep]_vars

----------------------------------------------------------------------------
\* C38: an email-verification token is accepted at most once: of two
\* GET /verify-email/:token calls with one token, interleaved between their
\* database operations, at most one is answered with a success.
C38_AcceptedOnce ==
    \A p, q \in Procs :
        (/\ p # q
         /\ procs[p].op = "verify"
         /\ procs[q].op = "verify"
         /\ procs[p].token = procs[q].token
         /\ procs[p].pc = "done"
         /\ procs[q].pc = "done") =>
            ~(/\ procs[p].result \in {"Verified", "EmailUpdated"}
              /\ procs[q].result \in {"Verified", "EmailUpdated"})

============================================================================
